---- MODULE Spec2Model ----
(***************************************************************************)
(* gpgcloud: the content-addressed encrypt/store/retrieve engine           *)
(* (cloud.Cloud), its metadata database (database.MetaDataDB), the hash    *)
(* helpers (lib) and the key-addressed bucket providers (cloud.amazon,     *)
(* cloud.sftp).                                                            *)
(*                                                                         *)
(* Byte strings are sequences of one-character strings.  SHA-256 is taken  *)
(* as injective: Hash(x) is the tagged value <<"sha256", x>>.  Ciphertexts *)
(* are symbolic: a blob names its algorithm, the plaintext it encrypts,    *)
(* the random material drawn when it was produced and the damage done to   *)
(* its bytes afterwards.                                                   *)
(***************************************************************************)
EXTENDS Integers, Sequences, FiniteSets, TLC

\* ---------------------------------------------------------------- bounds
MaxOps == 3          \* operations started in one behaviour
MaxCalls == 4        \* calls made on one back-end instance
ReadBlocks == 2      \* blocks of one read of encrypt and decrypt (1024 in the code)
ChunkSize == 2       \* bytes that checksum_stream reads at a time
MaxCmds == 3         \* runs of GPGBackup in one behaviour

\* ------------------------------------------------------- program constants
METADATA_VERSION == 1
BlockSize == 16

\* ---------------------------------------------------------------- inputs
Plaintexts == { <<"a">>, <<"a", "b">> }
Paths == { <<"b", "/", "c">>, <<"/", "c">>, <<"b", "c">>, <<"c">> }
Backends == { "amazon-s3", "sftp" }
Methods == { "gpg", "symmetric" }

\* The data pipelines that Provider.__init__ accepts.
AllMethods == Methods \cup { "cryptoengine" }

\* The local files given to store_from_filename: their name and content.
LocalFiles == { [filename |-> <<"b", "/", "c">>, data |-> <<"a">>],
                [filename |-> <<"c">>, data |-> <<"a", "b">>] }

NoRec == [none |-> TRUE]
NoBlob == [none |-> TRUE]

\* ------------------------------------------------------------------- lib
\* lib.checksum_data: SHA-256 hex digest of a byte string.
checksum_data(data) == <<"sha256", data>>

\* A digest that puts what it is fed before what it has.
Sha256Update_Prepend(fed, data) == data \o fed

\* hashlib's sha256.update: the digest is that of all the bytes fed so far.
Sha256Update(fed, data) == fed \o data

\* lib.checksum_stream: the stream is read block by block until a read
\* returns nothing, each block is fed to the digest, then the extra data
\* (<< >> for None).
RECURSIVE checksum_stream(_, _, _)
checksum_stream(fed, rest, extra_data) ==
    IF rest = << >>
    THEN <<"sha256", IF extra_data = << >> THEN fed
                     ELSE Sha256Update(fed, extra_data)>>
    ELSE LET n == IF Len(rest) < ChunkSize THEN Len(rest) ELSE ChunkSize
         IN  checksum_stream(Sha256Update(fed, SubSeq(rest, 1, n)),
                             SubSeq(rest, n + 1, Len(rest)), extra_data)

\* lib.checksum_file: checksum_stream over the bytes of the file.
checksum_file(content, extra_data) ==
    checksum_stream(<< >>, content, extra_data)

\* os.path.basename: what follows the last "/".
RECURSIVE basename(_)
basename(path) ==
    IF path = <<>> THEN <<>>
    ELSE IF \E i \in 1..Len(path) : path[i] = "/"
         THEN basename(Tail(path))
         ELSE path

\* ------------------------------------------------------------ encryption
\* A padding that adds nothing to a whole number of blocks.
PaddingLength_NoFullBlock(n) == (BlockSize - (n % BlockSize)) % BlockSize

\* lib.encryption.encrypt: PKCS#7 padding length for a plaintext of n bytes.
PaddingLength(n) ==
    IF (BlockSize - (n % BlockSize)) = 0 THEN BlockSize
    ELSE BlockSize - (n % BlockSize)

\* base64.encodestring: 4 characters per 3 bytes, a newline per 57 bytes.
Base64Len(n) == 4 * ((n + 2) \div 3) + ((n + 56) \div 57)

\* base64.decodestring of the worker's encrypt_data: four characters of the
\* alphabet give three bytes, each cut from two neighbouring characters; a
\* text that is not a whole number of such groups is refused (binascii
\* "Incorrect padding").
Base64DecodeOk(text) == Len(text) % 4 = 0
Base64Decode(text) ==
    [i \in 1..(3 * (Len(text) \div 4)) |->
        LET a == 4 * ((i - 1) \div 3) + ((i - 1) % 3) + 1
        IN  "~" \o text[a] \o text[a + 1]]

\* base64.encodestring of the worker's decrypt_data: four characters per
\* three bytes and a closing newline; nothing for no bytes.
Base64Encode(bytes) ==
    [i \in 1..Base64Len(Len(bytes)) |->
        IF i = Base64Len(Len(bytes)) THEN "\n"
        ELSE LET b == ((3 * (i - 1)) \div 4) + 1
             IN  "^" \o bytes[IF b > Len(bytes) THEN Len(bytes) ELSE b]]

\* lib.encryption.generate_random_password: the password of a draw.
PasswordOf(nonce) == <<"password", nonce>>

\* Cloud._encrypt_gpg / _encrypt_file_gpg: OpenPGP message, no key recorded.
EncryptGpg(data, nonce) ==
    [alg |-> "gpg", pt |-> data, nonce |-> nonce, damage |-> "none"]

\* Cloud._encrypt_symmetric / _encrypt_file_symmetric: salt and AES-CBC
\* ciphertext under a fresh password, wrapped in base64.
EncryptSymmetric(data, nonce) ==
    [alg |-> "aes", pt |-> data, nonce |-> nonce, damage |-> "none"]

\* Cloud._encrypt_cryptoengine / _encrypt_file_cryptoengine with the worker's
\* encrypt_data: the worker decodes what it is given as base64 and encrypts
\* the decoded bytes as the symmetric pipeline does.
EncryptCryptoengine(data, nonce) ==
    [alg |-> "aes",
     pt |-> IF Base64DecodeOk(data) THEN Base64Decode(data) ELSE << >>,
     nonce |-> nonce, damage |-> "none"]

\* len() / st_size of the stored ciphertext bytes.
BlobLen(blob) ==
    LET full == IF blob.alg = "aes"
                THEN Base64Len(BlockSize + Len(blob.pt)
                               + PaddingLength(Len(blob.pt)))
                ELSE Len(blob.pt) + 1   \* OpenPGP packet framing
    IN  IF blob.damage = "truncate" THEN full - 1 ELSE full

\* The worker's encrypt_data: the response of server.py lines 43-60, the
\* ciphertext and the checksum of the ciphertext.
encrypt_data(base64_data, nonce) ==
    [encrypted_data |-> EncryptCryptoengine(base64_data, nonce),
     encrypted_checksum |->
         checksum_data(EncryptCryptoengine(base64_data, nonce))]

\* The responses a worker may give to encrypt_task: that of encrypt_data, or
\* its ciphertext with the checksum of other bytes (the ciphertext with a
\* bit flipped).
WorkerResults(data, nonce) ==
    { encrypt_data(data, nonce),
      [encrypt_data(data, nonce) EXCEPT
          !.encrypted_checksum =
              checksum_data([@[2] EXCEPT !.damage = "flip"])] }

\* Cloud._encrypt_cryptoengine lines 271-280 / _encrypt_file_cryptoengine
\* lines 299-311 after res.get(): the fields taken from the response.
EncryptRemote(result, nonce) ==
    [encryption_key |-> PasswordOf(nonce),
     encrypted_data |-> result.encrypted_data,
     encrypted_size |-> BlobLen(result.encrypted_data),
     encrypted_checksum |-> result["encrypted_checksum"]]

\* The encryption step of Cloud.store: (encryption_key, encrypted_data,
\* encrypted_size, encrypted_checksum) for the configured method.
EncryptData(m, data, nonce) ==
    LET blob == IF m = "symmetric" THEN EncryptSymmetric(data, nonce)
                ELSE IF m = "cryptoengine"
                THEN EncryptCryptoengine(data, nonce)
                ELSE EncryptGpg(data, nonce)
    IN  [ok |-> m = "cryptoengine" => Base64DecodeOk(data),
         encryption_key |-> IF m = "gpg" THEN <<"null">>
                            ELSE PasswordOf(nonce),
         encrypted_data |-> blob,
         encrypted_size |-> BlobLen(blob),
         encrypted_checksum |->
             IF m = "cryptoengine"
             THEN EncryptRemote(encrypt_data(data, nonce), nonce)
                      .encrypted_checksum
             ELSE checksum_data(blob)]

\* Cloud._decrypt_gpg / _decrypt_symmetric and the file variants: the
\* plaintext of the blob, or a GPG error, or garbage under a wrong key or
\* from damaged bytes.
\* hashed is the byte string whose checksum the pipeline returns with the
\* data; the worker's decrypt_data returns the plaintext as base64 and the
\* checksum of the plaintext.
DecryptData(m, blob, encryption_key) ==
    IF m = "symmetric"
    THEN IF /\ blob.alg = "aes" /\ blob.damage = "none"
            /\ encryption_key = PasswordOf(blob.nonce)
         THEN [ok |-> TRUE, data |-> blob.pt, hashed |-> blob.pt]
         ELSE [ok |-> TRUE, data |-> <<"?">>, hashed |-> <<"?">>]
    ELSE IF m = "cryptoengine"
    THEN IF /\ blob.alg = "aes" /\ blob.damage = "none"
            /\ encryption_key = PasswordOf(blob.nonce)
         THEN [ok |-> TRUE, data |-> Base64Encode(blob.pt),
               hashed |-> blob.pt]
         ELSE [ok |-> TRUE, data |-> Base64Encode(<<"?">>),
               hashed |-> <<"?">>]
    ELSE IF blob.alg = "gpg" /\ blob.damage = "none"
         THEN [ok |-> TRUE, data |-> blob.pt, hashed |-> blob.pt]
         ELSE [ok |-> FALSE, data |-> <<>>, hashed |-> <<>>]

\* json.dumps / json.loads of a metadata record.
JsonDumps(rec) == <<"json", rec>>
JsonIsValid(text) == Len(text) = 2 /\ text[1] = "json"
JsonLoads(text) == text[2]

\* gpg.encrypt of the metadata text to the configured recipients.
GpgEncryptMetadata_Plain(text) == [alg |-> "raw", pt |-> text]

GpgEncryptMetadata(text) == [alg |-> "gpg", pt |-> text]

\* ------------------------------------------------------------- providers
\* A bucket is a function from keys to stored bytes.
EmptyBucket == << >>
HasKey(bucket, key) == key \in DOMAIN bucket

\* A store that leaves an existing object as it is.
ProviderStore_KeepFirst(bucket, key, data) ==
    [k \in (DOMAIN bucket) \cup {key} |->
        IF k \in DOMAIN bucket THEN bucket[k] ELSE data]

\* S3.store / Sftp.store / store_from_filename: write under the key.
ProviderStore(bucket, key, data) ==
    [k \in (DOMAIN bucket) \cup {key} |-> IF k = key THEN data ELSE bucket[k]]

\* S3.delete removes the key if present; Sftp.delete removes the file.
ProviderDelete(bucket, key) ==
    [k \in (DOMAIN bucket) \ {key} |-> bucket[k]]

\* Sftp.delete (connection.remove) raises IOError on a missing file;
\* S3.delete does nothing on a missing key.
ProviderDeleteRaises(b, bucket, key) == b = "sftp" /\ ~HasKey(bucket, key)

\* Provider.__name__ of the metadata provider.
ProviderName(b) == b

\* S3.retrieve / Sftp.retrieve and retrieve_to_filename of one key: what
\* the call returns or raises, and whether it has written the bytes to the
\* caller or to the file.  On a missing key S3.retrieve returns None and
\* S3.retrieve_to_filename returns without writing; Sftp raises IOError
\* (ENOENT) from connection.file / connection.get.
ProviderRetrieve(b, kind, bucket, key) ==
    IF HasKey(bucket, key)
    THEN [outcome |-> "ok", returned |-> "data", data |-> bucket[key]]
    ELSE IF b = "sftp"
    THEN [outcome |-> "IOError", returned |-> "nothing", data |-> << >>]
    ELSE [outcome |-> "ok",
          returned |-> IF kind = "retrieve" THEN "None" ELSE "nothing",
          data |-> << >>]

\* S3.list / Sftp.list: the dictionary of the keys with their bytes.
ProviderList(bucket) == bucket

\* A connect that opens a session whatever the instance holds.
ProviderConnect_NoGuard(c, n) == [conn |-> "open", sessions |-> n + 1]

\* The states of an instance: "none" (nothing held), "transport" (Sftp:
\* self.transport is an open transport, self.connection is still None),
\* "open" (self.connection is a session), "closed" (self.connection is the
\* client that Sftp.disconnect has closed).  self.connection is not None:
HasConnection(c) == c \notin {"none", "transport"}

\* S3.connect / Sftp.connect on an instance whose connection is c after n
\* sessions: return self when self.connection is not None, else open one.
ProviderConnect(c, n) ==
    IF HasConnection(c) THEN [conn |-> c, sessions |-> n]
    ELSE [conn |-> "open", sessions |-> n + 1]

\* What a connect that raises can leave behind.  S3.connect: nothing
\* (boto.connect_s3 raised) or the connection (_create_bucket raised).
\* Sftp.connect: nothing (lines 70-71 raised), the transport of line 71
\* (transport.connect or SFTPClient.from_transport raised, lines 72-73), or
\* the connection (_create_bucket raised, lines 74-77).
ConnectLeft(b) ==
    IF b = "sftp" THEN {"none", "transport", "open"} ELSE {"none", "open"}

\* S3.disconnect sets connection to None; Sftp.disconnect returns when
\* connection is None and else closes the connection and the transport,
\* leaving the closed client in self.connection.
ProviderDisconnect(b, c) ==
    IF b = "sftp" THEN (IF HasConnection(c) THEN "closed" ELSE c)
    ELSE "none"

\* What a store, retrieve, delete or list raises before it touches the
\* bucket: the assert on self.connection, or the error of a closed session.
ProviderGuard(c) ==
    IF ~HasConnection(c) THEN "AssertionError"
    ELSE IF c = "closed" THEN "SessionError"
    ELSE "ok"

\* -------------------------------------------------------------- database
\* The Index is the sequence of rows of the "metadata" table, in insertion
\* order.
RowMatches(row, rec) == row.name = rec.name /\ row.key = rec.key

\* MetaDataDB.update: upsert on the columns ["name", "key"].
DbUpdate(idx, rec) ==
    IF \E i \in 1..Len(idx) : RowMatches(idx[i], rec)
    THEN [i \in 1..Len(idx) |-> IF RowMatches(idx[i], rec) THEN rec ELSE idx[i]]
    ELSE Append(idx, rec)

\* MetaDataDB.delete(key): the rows with that key.
DbDeleteTest(row, key) == row.key # key
DbDelete(idx, key) ==
    LET Keep(row) == DbDeleteTest(row, key) IN SelectSeq(idx, Keep)

\* A drop that leaves the table as it is.
DbDropProvider_Nothing(idx, provider) == idx

\* A drop that deletes one row of the provider instead of all of them.
DbDropProvider_First(idx, provider) ==
    LET hits == { i \in 1..Len(idx) : idx[i].provider = provider }
        first == IF hits = {} THEN 0
                 ELSE CHOOSE i \in hits : \A j \in hits : i <= j
    IN  [i \in 1..(Len(idx) - (IF first = 0 THEN 0 ELSE 1)) |->
            IF first = 0 \/ i < first THEN idx[i] ELSE idx[i + 1]]

\* MetaDataDB.drop(provider): the rows of that provider.
DbDropProvider(idx, provider) ==
    LET Keep(row) == row.provider # provider IN SelectSeq(idx, Keep)

\* MetaDataDB.drop(): the whole table.
DbDrop(idx) == << >>

\* A lookup that compares the entry key with the checksum.
FindTest_ByKey(row, provider, checksum) ==
    row.provider = provider /\ row.key = checksum

\* MetaDataDB.find_one(provider=..., checksum=...): the first matching row.
FindTest(row, provider, checksum) ==
    row.provider = provider /\ row.checksum = checksum
DbFind(idx, provider, checksum) ==
    LET Want(row) == FindTest(row, provider, checksum) IN SelectSeq(idx, Want)

\* A lookup that never finds a row.
DbHasOne_Never(idx, provider, checksum) == FALSE

DbHasOne(idx, provider, checksum) == DbFind(idx, provider, checksum) # << >>
DbFindOne(idx, provider, checksum) == Head(DbFind(idx, provider, checksum))

\* Cloud.find_one(path=...) / MetaDataDB.find_one(path=...): the rows with
\* that path, whatever their provider (the filter is passed as it is).
DbFindPath(idx, path) ==
    LET Want(row) == row.path = path IN SelectSeq(idx, Want)

\* MetaDataDB.list(provider): the rows of the provider, in table order.
DbList(idx, provider) ==
    LET Want(row) == row.provider = provider IN SelectSeq(idx, Want)

\* Cloud.list / MetaDataDB.list(provider): the rows of the provider.
CloudList(idx, provider) ==
    { idx[i] : i \in { j \in 1..Len(idx) : idx[j].provider = provider } }

\* ----------------------------------------------------------------- cloud
\* os.stat of the local file given to store_from_filename; store() passes
\* stat_info = None and the attributes stay 0.
NoStat == [st_mode |-> 0, st_uid |-> 0, st_gid |-> 0,
           st_atime |-> 0, st_mtime |-> 0, st_ctime |-> 0]
FileStat == [st_mode |-> 420, st_uid |-> 501, st_gid |-> 20,
             st_atime |-> 7, st_mtime |-> 5, st_ctime |-> 6]

\* Cloud.store line 317 / store_from_filename line 367: the entry key.
EntryKey(data, cloud_filename) == checksum_data(data \o cloud_filename)

\* Cloud.store line 318 / store_from_filename line 368: the data-bucket key.
DataKey(data) == checksum_data(data)

\* Cloud._create_metadata.
CreateMetadata(provider, key, filename, size, stat_info, checksum, enc) ==
    [metadata_version |-> METADATA_VERSION,
     provider |-> provider, key |-> key,
     name |-> basename(filename), path |-> filename, size |-> size,
     mode |-> stat_info.st_mode, uid |-> stat_info.st_uid,
     gid |-> stat_info.st_gid, atime |-> stat_info.st_atime,
     mtime |-> stat_info.st_mtime, ctime |-> stat_info.st_ctime,
     checksum |-> checksum,
     encryption_key |-> enc.encryption_key,
     encrypted_size |-> enc.encrypted_size,
     encrypted_checksum |-> enc.encrypted_checksum]

\* A store that updates the Index before it writes to either bucket.
StoreSteps_UpsertFirst(fresh) ==
    IF fresh THEN <<"s_index", "s_meta", "s_data">>
    ELSE <<"s_index", "s_meta">>

\* A store that updates the Index before it writes the data blob.
StoreSteps_IndexFirst(fresh) ==
    IF fresh THEN <<"s_meta", "s_index", "s_data">>
    ELSE <<"s_meta", "s_index">>

\* A store that writes the data blob before the metadata object.
StoreSteps_DataFirst(fresh) ==
    IF fresh THEN <<"s_data", "s_meta", "s_index">>
    ELSE <<"s_meta", "s_index">>

\* The order of the three writes of Cloud.store lines 352-356 (and of
\* store_from_filename lines 404-408); the data write is skipped on dedup.
StoreSteps(fresh) ==
    IF fresh THEN <<"s_meta", "s_data", "s_index">>
    ELSE <<"s_meta", "s_index">>

\* The order of the steps of Cloud.delete lines 551-557.
DeleteSteps == <<"d_meta", "d_index", "d_data">>

\* A retrieve that does not compare the fetched bytes with the record.
EncryptedChecksumOk_Skip(rec, blob) == TRUE

\* Cloud.retrieve lines 475-481 / retrieve_to_filename lines 516-523: the
\* comparison of the fetched bytes with the record.
EncryptedChecksumOk(rec, blob) == checksum_data(blob) = rec.encrypted_checksum

\* Cloud.retrieve lines 492-496 / retrieve_to_filename lines 535-539.
ChecksumOk(rec, data) == checksum_data(data) = rec.checksum

\* Cloud.retrieve / Cloud.retrieve_to_filename on the data bucket.  For a
\* missing key Sftp raises IOError, S3.retrieve returns None
\* (checksum_data(None) is a TypeError) and S3.retrieve_to_filename leaves
\* the temporary file empty (its checksum is not the record's).
Retrieve(kind, b, m, bucket, rec) ==
    IF ~HasKey(bucket, rec.checksum)
    THEN IF b = "sftp"
         THEN [outcome |-> "IOError", errkey |-> <<>>, data |-> <<>>,
               decrypted |-> FALSE]
         ELSE IF kind = "retrieve"
         THEN [outcome |-> "TypeError", errkey |-> <<>>, data |-> <<>>,
               decrypted |-> FALSE]
         ELSE [outcome |-> "DataError", errkey |-> rec.checksum,
               data |-> <<>>, decrypted |-> FALSE]
    ELSE LET blob == bucket[rec.checksum]
             dec == DecryptData(m, blob, rec.encryption_key)
         IN  IF ~EncryptedChecksumOk(rec, blob)
             THEN [outcome |-> "DataError", errkey |-> rec.checksum,
                   data |-> <<>>, decrypted |-> FALSE]
             ELSE IF ~dec.ok
             THEN [outcome |-> "GPGError", errkey |-> <<>>,
                   data |-> <<>>, decrypted |-> FALSE]
             ELSE IF ~ChecksumOk(rec, dec.hashed)
             THEN [outcome |-> "DataError", errkey |-> rec.checksum,
                   data |-> dec.data, decrypted |-> TRUE]
             ELSE [outcome |-> "ok", errkey |-> <<>>,
                   data |-> dec.data, decrypted |-> TRUE]

\* The order in which metadata_provider.list().items() yields the keys of
\* the bucket: some order fixed by the content of the bucket.
ListOrder(bucket) ==
    LET n == Cardinality(DOMAIN bucket)
    IN  CHOOSE s \in [1..n -> DOMAIN bucket] :
            \A i, j \in 1..n : i # j => s[i] # s[j]

\* The checks of one metadata object in Cloud.sync lines 196-210.
SyncCheck(obj) ==
    IF obj.alg # "gpg" THEN "GPGError"
    ELSE IF obj.pt = << >> THEN "MetadataError"
    ELSE IF ~JsonIsValid(obj.pt) THEN "MetadataError"
    ELSE IF "metadata_version" \notin DOMAIN JsonLoads(obj.pt)
    THEN "MetadataError"
    ELSE IF JsonLoads(obj.pt).metadata_version # METADATA_VERSION
    THEN "MetadataError"
    ELSE "ok"

\* The loop of Cloud.sync lines 195-211 over the listed objects.
RECURSIVE SyncLoop(_, _, _)
SyncLoop(idx, keys, bucket) ==
    IF keys = << >> THEN [index |-> idx, outcome |-> "ok", errkey |-> << >>]
    ELSE LET obj == bucket[Head(keys)]
             chk == SyncCheck(obj)
         IN  IF chk # "ok"
             THEN [index |-> idx, outcome |-> chk,
                   errkey |-> IF chk = "MetadataError" THEN Head(keys)
                              ELSE << >>]
             ELSE SyncLoop(DbUpdate(idx, JsonLoads(obj.pt)), Tail(keys), bucket)

\* Cloud.sync lines 190-211 as a whole: the drop of the provider's rows, then
\* the loop over the listed bucket.
CloudSync(idx, provider, bucket) ==
    SyncLoop(DbDropProvider(idx, provider), ListOrder(bucket), bucket)

\* ---------------------------------------------------------------- config
\* Config.MANDATORY_CONFIGS: the options that check() asks for.
MANDATORY_CONFIGS ==
    [gnupg |-> {"recipients", "signer"},
     aws |-> {"access_key", "secret_access_key", "bucket"}]

\* The configuration files: no file, or a file with some of the sections
\* and under them some of their options.
ConfigFiles ==
    {[isfile |-> FALSE, sections |-> {}, options |-> {}]} \cup
    UNION { { [isfile |-> TRUE, sections |-> S, options |-> O] :
                O \in SUBSET { so \in S \X {"recipients", "signer",
                                            "access_key", "secret_access_key",
                                            "bucket"} :
                                 so[2] \in MANDATORY_CONFIGS[so[1]] } } :
            S \in SUBSET DOMAIN MANDATORY_CONFIGS }

\* The file that Config.__init__ writes when there is none, lines 36-44.
ConfigDefaults ==
    [isfile |-> TRUE, sections |-> {"gnupg", "aws"},
     options |-> { <<"gnupg", "recipients">>, <<"gnupg", "signer">>,
                   <<"aws", "access_key">>, <<"aws", "secret_access_key">>,
                   <<"aws", "bucket">> }]

\* Config.__init__ lines 33-44: the file as it is after the constructor
\* has read it or, when there was none, has written the defaults.
ConfigLoaded(file) == IF file.isfile THEN file ELSE ConfigDefaults

\* Config.check lines 47-63 on the configuration read.
ConfigCheck(file) ==
    IF \E s \in DOMAIN MANDATORY_CONFIGS :
          \/ s \notin file.sections
          \/ \E o \in MANDATORY_CONFIGS[s] : <<s, o>> \notin file.options
    THEN "ConfigError"
    ELSE "ok"

\* ----------------------------------------------------------------- state
VARIABLES
    backend,    \* the provider class of both buckets: amazon.S3 or sftp.Sftp
    method,     \* provider.encryption_method of the data provider
    mbucket,    \* the metadata bucket: entry key -> encrypted metadata
    dbucket,    \* the data bucket: plaintext checksum -> ciphertext blob
    index,      \* MetaDataDB: the rows of the metadata table
    pc,         \* the step the running operation is at, or "idle"
    op,         \* the locals of the running operation
    ret,        \* the operation that runs or ran last, and how it ended
    nonce,      \* the next unused draw of the random source
    nops,       \* operations started so far
    held,       \* records returned by successful stores with nothing but
                \* successful stores of other (plaintext, path) pairs and
                \* retrieves since
    clean,      \* every operation so far was a store or a delete that
                \* succeeded, or a retrieve
    conn,       \* provider.connection: "none", an "open" session, or the
                \* "closed" session that Sftp.disconnect leaves behind
    sessions,   \* sessions opened by connect so far
    gpgok,      \* gpg.encrypt succeeds (the recipients' keys are usable)
    other,      \* the buckets of the back-end that is not configured
    cfile       \* the configuration file: whether it is there, and the
                \* sections and options it holds

\* What the engine's operations leave alone.
conf == <<conn, sessions, gpgok, other, cfile>>

vars == <<backend, method, mbucket, dbucket, index, pc, op, ret,
          nonce, nops, held, clean, conn, sessions, gpgok, other, cfile>>

\* The destination of retrieve_to_filename before the call: no file, or a
\* file that is already there.
NoFile == [none |-> TRUE]
OldFile == [data |-> <<"o">>, mode |-> 384]
NoOp == [kind |-> "none", rec |-> NoRec, blob |-> NoBlob, fresh |-> FALSE,
         steps |-> << >>, prior |-> {}]
NoRet == [op |-> "none", outcome |-> "none", rec |-> NoRec, errkey |-> << >>,
          data |-> << >>, decrypted |-> FALSE, clean |-> FALSE,
          prior |-> {}, dest0 |-> NoFile, dest |-> NoFile, leftover |-> FALSE]

Provider == ProviderName(backend)

\* The state after construction, with the data pipeline one of ms.
InitWith(ms) ==
    /\ backend \in Backends
    /\ method \in ms
    /\ mbucket = EmptyBucket
    /\ dbucket = EmptyBucket
    /\ index = << >>
    /\ pc = "idle"
    /\ op = NoOp
    /\ ret = NoRet
    /\ nonce = 1
    /\ nops = 0
    /\ held = {}
    /\ clean = TRUE
    /\ conn = "open"
    /\ sessions = 1
    /\ gpgok = TRUE
    /\ other = [m |-> EmptyBucket, d |-> EmptyBucket]
    /\ cfile = ConfigDefaults

Init == InitWith(Methods)

CanStart == pc = "idle" /\ nops < MaxOps

\* The records a caller can pass to retrieve and delete: those listed and
\* those returned by store.
Records == CloudList(index, Provider) \cup held

Running(kind, rec, prior) ==
    [NoRet EXCEPT !.op = kind, !.outcome = "running", !.rec = rec,
                  !.prior = prior]

\* The step after the head of op.steps, and the result once none is left.
Advance ==
    /\ op' = IF Tail(op.steps) = << >> THEN NoOp
             ELSE [op EXCEPT !.steps = Tail(op.steps)]
    /\ pc' = IF Tail(op.steps) = << >> THEN "idle" ELSE Head(Tail(op.steps))
    /\ ret' = IF Tail(op.steps) = << >> THEN [ret EXCEPT !.outcome = "ok"]
              ELSE ret

\* ----------------------------------------------------------------- store
\* A store that does not look at what the encryption returned.
StoreRaises_Unchecked(ok, enc) == "none"

\* Cloud.store lines 330-350 / store_from_filename lines 381-402: the error
\* that the encryption of the data (the worker refusing its input, GPGError
\* of _encrypt_gpg) or of the metadata (GPGError, line 350) raises.
StoreRaises(ok, enc) ==
    IF ~enc.ok THEN "Error"
    ELSE IF ~ok THEN "GPGError"
    ELSE "none"

\* The entry key and the data-bucket key that the two stores compute: lines
\* 317-318 (checksum_data) and 367-368 (checksum_file).
StoreKey(kind, data, cloud_filename) ==
    IF kind = "store" THEN EntryKey(data, cloud_filename)
    ELSE checksum_file(data, cloud_filename)
StoreChecksum(kind, data) ==
    IF kind = "store" THEN DataKey(data) ELSE checksum_file(data, << >>)

\* Cloud.store lines 320-345 / store_from_filename lines 370-396: on dedup
\* the encryption fields of the record found are taken over and nothing is
\* encrypted; else the data is encrypted with the n-th random draw.
StoreEncrypt(idx, provider, checksum, data, n) ==
    IF DbHasOne(idx, provider, checksum)
    THEN LET o == DbFindOne(idx, provider, checksum)
         IN  [ok |-> TRUE,
              encryption_key |-> o.encryption_key,
              encrypted_data |-> NoBlob,
              encrypted_size |-> o.encrypted_size,
              encrypted_checksum |-> o.encrypted_checksum]
    ELSE EncryptData(method, data, n)

\* Cloud.store (kind "store", stat_info None) and Cloud.store_from_filename
\* (kind "store_from_filename", stat_info of the file, cloud_filename left
\* to default to the file name) up to the encrypted metadata: lines 317-350
\* and 363-402.  An error of the encryption ends the call here.
StoreWith(kind, data, cloud_filename, enc) ==
    /\ CanStart
    /\ LET key == StoreKey(kind, data, cloud_filename)
           checksum == StoreChecksum(kind, data)
           old == DbHasOne(index, Provider, checksum)
           rec == CreateMetadata(Provider, key, cloud_filename, Len(data),
                                 IF kind = "store" THEN NoStat ELSE FileStat,
                                 checksum, enc)
           prior == { r \in CloudList(index, Provider) :
                        r.checksum = checksum /\ r.path # cloud_filename }
           raised == StoreRaises(gpgok, enc)
       IN  /\ nonce' = IF old THEN nonce ELSE nonce + 1
           /\ IF raised # "none"
              THEN /\ pc' = "idle"
                   /\ op' = NoOp
                   /\ ret' = [NoRet EXCEPT !.op = kind, !.outcome = raised]
                   /\ held' = {}
                   /\ clean' = FALSE
              ELSE /\ op' = [kind |-> kind, rec |-> rec,
                             blob |-> enc.encrypted_data,
                             fresh |-> ~old, steps |-> StoreSteps(~old),
                             prior |-> prior]
                   /\ pc' = Head(StoreSteps(~old))
                   /\ ret' = [Running(kind, rec, prior) EXCEPT
                                 !.leftover = /\ ret.op = "delete"
                                              /\ ret.outcome = "IOError"
                                              /\ HasKey(dbucket, checksum)
                                              /\ ~old]
                   /\ UNCHANGED <<held, clean>>
    /\ nops' = nops + 1
    /\ UNCHANGED <<conf, backend, method, mbucket, dbucket, index>>

\* The store of the engine with a worker that answers as encrypt_data does.
StoreBegin(kind, data, cloud_filename) ==
    StoreWith(kind, data, cloud_filename,
              StoreEncrypt(index, Provider, StoreChecksum(kind, data), data,
                           nonce))

\* The store under the remote pipeline with a worker whose response carries
\* a checksum of its own: lines 271-280 / 299-311 take it as it is.
StoreRemote(kind, data, cloud_filename) ==
    /\ method = "cryptoengine"
    /\ Base64DecodeOk(data)
    /\ ~DbHasOne(index, Provider, StoreChecksum(kind, data))
    /\ \E result \in WorkerResults(data, nonce) :
           /\ result # encrypt_data(data, nonce)
           /\ StoreWith(kind, data, cloud_filename,
                        [ok |-> TRUE] @@ EncryptRemote(result, nonce))

\* metadata_provider.store(key, encrypted_metadata.data): lines 353 / 405.
StoreMeta ==
    /\ pc = "s_meta"
    /\ mbucket' = ProviderStore(mbucket, op.rec.key,
                                GpgEncryptMetadata(JsonDumps(op.rec)))
    /\ Advance
    /\ UNCHANGED <<conf, backend, method, dbucket, index, nonce, nops, held,
                   clean>>

\* provider.store(checksum, encrypted_data): lines 354-355 / 406-407.
StoreData ==
    /\ pc = "s_data"
    /\ dbucket' = ProviderStore(dbucket, op.rec.checksum, op.blob)
    /\ Advance
    /\ UNCHANGED <<conf, backend, method, mbucket, index, nonce, nops, held,
                   clean>>

\* database.update(metadata) and return: lines 356-357 / 408-410.
StoreIndex ==
    /\ pc = "s_index"
    /\ index' = DbUpdate(index, op.rec)
    /\ Advance
    /\ held' = IF Tail(op.steps) = << >>
               THEN { h \in held : h.checksum # op.rec.checksum
                                      \/ h.path # op.rec.path } \cup {op.rec}
               ELSE held
    /\ UNCHANGED <<conf, backend, method, mbucket, dbucket, nonce, nops,
                   clean>>

\* A back-end error raised by the bucket write the store is about to do.
StoreFail ==
    /\ pc \in {"s_meta", "s_data"}
    /\ pc' = "idle"
    /\ op' = NoOp
    /\ ret' = [NoRet EXCEPT !.op = ret.op, !.outcome = "IOError"]
    /\ held' = {}
    /\ clean' = FALSE
    /\ UNCHANGED <<conf, backend, method, mbucket, dbucket, index, nonce,
                   nops>>

\* ---------------------------------------------------------------- delete
\* Cloud.delete(metadata): lines 547-557.
DeleteBegin(rec) ==
    /\ CanStart
    /\ rec \in Records
    /\ op' = [NoOp EXCEPT !.kind = "delete", !.rec = rec,
                          !.steps = DeleteSteps]
    /\ pc' = Head(DeleteSteps)
    /\ ret' = Running("delete", rec, {})
    /\ nops' = nops + 1
    /\ held' = {}
    /\ UNCHANGED <<conf, backend, method, mbucket, dbucket, index, nonce,
                   clean>>

\* metadata_provider.delete(metadata["key"]): line 551.
DeleteMeta ==
    /\ pc = "d_meta"
    /\ ~ProviderDeleteRaises(backend, mbucket, op.rec.key)
    /\ mbucket' = ProviderDelete(mbucket, op.rec.key)
    /\ Advance
    /\ UNCHANGED <<conf, backend, method, dbucket, index, nonce, nops, held,
                   clean>>

\* database.delete(metadata["key"]): line 552.
DeleteIndex ==
    /\ pc = "d_index"
    /\ index' = DbDelete(index, op.rec.key)
    /\ Advance
    /\ UNCHANGED <<conf, backend, method, mbucket, dbucket, nonce, nops,
                   held, clean>>

\* A delete that removes the data blob whatever the Index holds.
DeletesData_Always == TRUE

\* The lookup of line 553 decides whether provider.delete runs (line 557).
DeletesData == ~DbHasOne(index, Provider, op.rec.checksum)

DeleteData ==
    /\ pc = "d_data"
    /\ IF DeletesData
       THEN /\ ~ProviderDeleteRaises(backend, dbucket, op.rec.checksum)
            /\ dbucket' = ProviderDelete(dbucket, op.rec.checksum)
       ELSE dbucket' = dbucket
    /\ Advance
    /\ UNCHANGED <<conf, backend, method, mbucket, index, nonce, nops, held,
                   clean>>

\* A back-end error raised by the bucket delete the operation is about to
\* do (for Sftp also: the file to remove is missing).
DeleteFail ==
    /\ \/ pc = "d_meta"
       \/ pc = "d_data" /\ DeletesData
    /\ pc' = "idle"
    /\ op' = NoOp
    /\ ret' = [NoRet EXCEPT !.op = ret.op, !.outcome = "IOError"]
    /\ clean' = FALSE
    /\ UNCHANGED <<conf, backend, method, mbucket, dbucket, index, nonce,
                   nops, held>>

\* ------------------------------------------------------------------ sync
\* Cloud.sync line 194: database.drop(provider=...).
SyncBegin ==
    /\ CanStart
    /\ index' = DbDropProvider(index, Provider)
    /\ op' = [NoOp EXCEPT !.kind = "sync", !.steps = <<"y_list">>]
    /\ pc' = "y_list"
    /\ ret' = Running("sync", NoRec, {})
    /\ nops' = nops + 1
    /\ held' = {}
    /\ clean' = FALSE
    /\ UNCHANGED <<conf, backend, method, mbucket, dbucket, nonce>>

\* Cloud.sync lines 195-211: list the bucket and insert its records until
\* one of them is refused.
SyncList ==
    /\ pc = "y_list"
    /\ LET res == SyncLoop(index, ListOrder(mbucket), mbucket)
       IN  /\ index' = res.index
           /\ ret' = [ret EXCEPT !.outcome = res.outcome,
                                 !.errkey = res.errkey]
    /\ pc' = "idle"
    /\ op' = NoOp
    /\ UNCHANGED <<conf, backend, method, mbucket, dbucket, nonce, nops,
                   held, clean>>

\* metadata_provider.list() raises a back-end error.
SyncFail ==
    /\ pc = "y_list"
    /\ pc' = "idle"
    /\ op' = NoOp
    /\ ret' = [NoRet EXCEPT !.op = ret.op, !.outcome = "IOError"]
    /\ UNCHANGED <<conf, backend, method, mbucket, dbucket, index, nonce,
                   nops, held, clean>>

\* MetaDataDB.drop(): the Index is dropped as a whole.
IndexDrop ==
    /\ CanStart
    /\ index' = DbDrop(index)
    /\ clean' = FALSE
    /\ ret' = [NoRet EXCEPT !.op = "drop", !.outcome = "ok"]
    /\ nops' = nops + 1
    /\ held' = {}
    /\ UNCHANGED <<conf, backend, method, mbucket, dbucket, pc, op, nonce>>

\* -------------------------------------------------------------- retrieve
\* A retrieve that removes the blob it found damaged.
RetrieveOp_DropsBad(kind, rec, dest0) ==
    /\ CanStart
    /\ rec \in Records
    /\ LET res == Retrieve(kind, backend, method, dbucket, rec)
       IN  /\ ret' = [NoRet EXCEPT !.op = kind, !.outcome = res.outcome,
                                   !.rec = rec, !.dest0 = dest0]
           /\ dbucket' = IF res.outcome = "DataError"
                         THEN ProviderDelete(dbucket, rec.checksum)
                         ELSE dbucket
    /\ nops' = nops + 1
    /\ UNCHANGED <<conf, backend, method, mbucket, index, pc, op, nonce,
                   held, clean>>

\* Cloud.retrieve (kind "retrieve") and Cloud.retrieve_to_filename (kind
\* "retrieve_to_filename", destination file dest0 before the call): the
\* decryption of the file variants writes the destination file, chmod and
\* utime follow the plaintext check.
RetrieveOp(kind, rec, dest0) ==
    /\ CanStart
    /\ rec \in Records
    /\ LET res == Retrieve(kind, backend, method, dbucket, rec)
       IN  ret' = [op |-> kind, outcome |-> res.outcome, rec |-> rec,
                   errkey |-> res.errkey, data |-> res.data,
                   decrypted |-> res.decrypted, clean |-> rec \in held,
                   prior |-> {}, leftover |-> FALSE, dest0 |-> dest0,
                   dest |-> IF kind = "retrieve_to_filename" /\ res.decrypted
                            THEN [data |-> res.data,
                                  mode |-> IF res.outcome = "ok"
                                           THEN rec.mode ELSE 0]
                            ELSE dest0]
    /\ nops' = nops + 1
    /\ UNCHANGED <<conf, backend, method, mbucket, dbucket, index, pc, op, nonce,
                   held, clean>>

\* ----------------------------------------------------------- environment
\* The bytes of a data-bucket object are changed behind the engine's back:
\* a byte altered ("flip") or the blob cut by one byte ("truncate").
Corrupt(key, damage) ==
    /\ CanStart
    /\ HasKey(dbucket, key)
    /\ dbucket[key].damage = "none"
    /\ dbucket' = [dbucket EXCEPT ![key].damage = damage]
    /\ ret' = [NoRet EXCEPT !.op = "corrupt", !.outcome = "ok"]
    /\ nops' = nops + 1
    /\ held' = {}
    /\ clean' = FALSE
    /\ UNCHANGED <<conf, backend, method, mbucket, index, pc, op, nonce>>

\* Objects that Cloud.sync refuses: not an OpenPGP message, empty, not
\* JSON, without metadata_version, with another metadata_version.
ForeignObjects ==
    { [alg |-> "raw", pt |-> << >>],
      [alg |-> "gpg", pt |-> << >>],
      [alg |-> "gpg", pt |-> <<"garbage">>],
      [alg |-> "gpg", pt |-> <<"json", [key |-> "k"]>>],
      [alg |-> "gpg", pt |-> <<"json", [metadata_version |-> 2]>>] }
ForeignKeys == { checksum_data(<<"a", "c">>) }

\* Such an object is put into the metadata bucket behind the engine's back.
ForeignPut(key, obj) ==
    /\ CanStart
    /\ mbucket' = ProviderStore(mbucket, key, obj)
    /\ ret' = [NoRet EXCEPT !.op = "foreign", !.outcome = "ok"]
    /\ nops' = nops + 1
    /\ held' = {}
    /\ clean' = FALSE
    /\ UNCHANGED <<conf, backend, method, dbucket, index, pc, op, nonce>>

\* --------------------------------------------------------- configuration
\* The engine is set up again with another data pipeline (Provider.__init__
\* with another encryption_method) over the same buckets and database.
SwitchMethod(m) ==
    /\ CanStart
    /\ m # method
    /\ method' = m
    /\ ret' = [NoRet EXCEPT !.op = "switch_method", !.outcome = "ok"]
    /\ nops' = nops + 1
    /\ clean' = FALSE
    /\ UNCHANGED <<conf, backend, mbucket, dbucket, index, pc, op, nonce,
                   held>>

\* The back-end that is not configured.
OtherBackend == CHOOSE b \in Backends : b # backend

\* The engine is set up again with the other back-end (GPGBackup main, the
\* --provider option) and the same database: its buckets are the other
\* back-end's.
SwitchBackend ==
    /\ CanStart
    /\ backend' = OtherBackend
    /\ mbucket' = other.m
    /\ dbucket' = other.d
    /\ other' = [m |-> mbucket, d |-> dbucket]
    /\ ret' = [NoRet EXCEPT !.op = "switch_backend", !.outcome = "ok"]
    /\ nops' = nops + 1
    /\ held' = {}
    /\ clean' = FALSE
    /\ UNCHANGED <<conn, sessions, gpgok, cfile, method, index, pc, op,
                   nonce>>

\* gpg.encrypt stops succeeding (encrypted_data.ok is False from now on).
GpgBreak ==
    /\ CanStart
    /\ gpgok
    /\ gpgok' = FALSE
    /\ ret' = [NoRet EXCEPT !.op = "gpg_break", !.outcome = "ok"]
    /\ nops' = nops + 1
    /\ UNCHANGED <<conn, sessions, other, cfile, backend, method, mbucket,
                   dbucket,
                   index, pc, op, nonce, held, clean>>

\* ------------------------------------------------------ back-end instance
\* The calls on one back-end instance over its data bucket.
ProvKeys == { <<"k">>, <<"l">> }
ProvData == { <<"x">>, <<"y">> }

\* The call that ran last on the instance: its arguments, what it returned
\* or raised, the connection and the bucket it found.
NoCall == [op |-> "none", outcome |-> "none", key |-> << >>, data |-> << >>,
           returned |-> "nothing", listing |-> EmptyBucket,
           was |-> "none", had |-> FALSE, before |-> EmptyBucket]

CanCall == pc = "idle" /\ nops < MaxCalls

Call(name, key) ==
    [NoCall EXCEPT !.op = name, !.key = key, !.was = conn,
                   !.had = HasKey(dbucket, key), !.before = dbucket,
                   !.outcome = "ok"]

ProvFrame == UNCHANGED <<gpgok, other, cfile, method, mbucket, index, pc, op,
                         nonce,
                         held, clean, backend>>

ProvConnect ==
    /\ CanCall
    /\ LET res == ProviderConnect(conn, sessions)
       IN  conn' = res.conn /\ sessions' = res.sessions
    /\ ret' = [Call("connect", << >>) EXCEPT !.returned = "self"]
    /\ nops' = nops + 1
    /\ dbucket' = dbucket
    /\ ProvFrame

ProvDisconnect ==
    /\ CanCall
    /\ conn' = ProviderDisconnect(backend, conn)
    /\ ret' = Call("disconnect", << >>)
    /\ nops' = nops + 1
    /\ UNCHANGED <<sessions, dbucket>>
    /\ ProvFrame

ProvStore(key, data) ==
    /\ CanCall
    /\ LET g == ProviderGuard(conn)
       IN  /\ dbucket' = IF g = "ok" THEN ProviderStore(dbucket, key, data)
                         ELSE dbucket
           /\ ret' = [Call("store", key) EXCEPT !.outcome = g, !.data = data]
    /\ nops' = nops + 1
    /\ UNCHANGED <<conn, sessions>>
    /\ ProvFrame

ProvRetrieve(kind, key) ==
    /\ CanCall
    /\ LET g == ProviderGuard(conn)
           res == ProviderRetrieve(backend, kind, dbucket, key)
       IN  ret' = IF g # "ok" THEN [Call(kind, key) EXCEPT !.outcome = g]
                  ELSE [Call(kind, key) EXCEPT !.outcome = res.outcome,
                                               !.returned = res.returned,
                                               !.data = res.data]
    /\ nops' = nops + 1
    /\ UNCHANGED <<conn, sessions, dbucket>>
    /\ ProvFrame

ProvDelete(key) ==
    /\ CanCall
    /\ LET g == ProviderGuard(conn)
           raises == ProviderDeleteRaises(backend, dbucket, key)
       IN  /\ dbucket' = IF g = "ok" /\ ~raises
                         THEN ProviderDelete(dbucket, key) ELSE dbucket
           /\ ret' = [Call("delete", key) EXCEPT
                         !.outcome = IF g # "ok" THEN g
                                     ELSE IF raises THEN "IOError" ELSE "ok"]
    /\ nops' = nops + 1
    /\ UNCHANGED <<conn, sessions>>
    /\ ProvFrame

ProvList ==
    /\ CanCall
    /\ LET g == ProviderGuard(conn)
       IN  ret' = [Call("list", << >>) EXCEPT
                     !.outcome = g,
                     !.returned = IF g = "ok" THEN "data" ELSE "nothing",
                     !.listing = IF g = "ok" THEN ProviderList(dbucket)
                                 ELSE EmptyBucket]
    /\ nops' = nops + 1
    /\ UNCHANGED <<conn, sessions, dbucket>>
    /\ ProvFrame

\* --------------------------------------------------------- specifications
StoreKinds == {"store", "store_from_filename"}
RetrieveKinds == {"retrieve", "retrieve_to_filename"}

Next ==
    \/ \E data \in Plaintexts, q \in Paths : StoreBegin("store", data, q)
    \/ \E f \in LocalFiles :
           StoreBegin("store_from_filename", f.data, f.filename)
    \/ StoreMeta
    \/ StoreData
    \/ StoreIndex
    \/ StoreFail
    \/ \E rec \in Records : DeleteBegin(rec)
    \/ DeleteMeta
    \/ DeleteIndex
    \/ DeleteData
    \/ DeleteFail
    \/ SyncBegin
    \/ SyncList
    \/ SyncFail
    \/ IndexDrop
    \/ \E rec \in Records : RetrieveOp("retrieve", rec, NoFile)
    \/ \E rec \in Records, dest0 \in {NoFile, OldFile} :
           RetrieveOp("retrieve_to_filename", rec, dest0)

\* The engine alone: every behaviour of store, delete, sync, Index drop and
\* retrieve, completed or interrupted by a back-end error.
Spec == Init /\ [][Next]_vars

NextEnv ==
    \/ Next
    \/ \E key \in DOMAIN dbucket, damage \in {"flip", "truncate"} :
           Corrupt(key, damage)
    \/ \E key \in ForeignKeys, obj \in ForeignObjects : ForeignPut(key, obj)

\* The engine in an environment that damages data blobs and puts foreign
\* objects into the metadata bucket.
SpecEnv == Init /\ [][NextEnv]_vars

\* The inputs of the stores under a changing configuration.
ConfPlaintexts == { << >>, <<"a">>, <<"a", "b", "c", "d">> }
ConfPaths == { <<"c">>, <<"/", "c">> }

InitConf == InitWith(AllMethods)

NextConf ==
    \/ \E data \in ConfPlaintexts, q \in ConfPaths :
           StoreBegin("store", data, q)
    \/ \E f \in LocalFiles :
           StoreBegin("store_from_filename", f.data, f.filename)
    \/ \E kind \in {"store", "store_from_filename"},
          data \in ConfPlaintexts, q \in ConfPaths :
           StoreRemote(kind, data, q)
    \/ StoreMeta
    \/ StoreData
    \/ StoreIndex
    \/ \E kind \in RetrieveKinds, rec \in Records :
           RetrieveOp(kind, rec, NoFile)
    \/ \E m \in AllMethods : SwitchMethod(m)
    \/ SwitchBackend
    \/ GpgBreak

\* A back-end instance as its constructor leaves it: no connection yet.
InitProvider ==
    /\ backend \in Backends
    /\ method = "gpg"
    /\ mbucket = EmptyBucket
    /\ dbucket = EmptyBucket
    /\ index = << >>
    /\ pc = "idle"
    /\ op = NoOp
    /\ ret = NoCall
    /\ nonce = 1
    /\ nops = 0
    /\ held = {}
    /\ clean = TRUE
    /\ conn = "none"
    /\ sessions = 0
    /\ gpgok = TRUE
    /\ other = [m |-> EmptyBucket, d |-> EmptyBucket]
    /\ cfile = ConfigDefaults

NextProvider ==
    \/ ProvConnect
    \/ ProvDisconnect
    \/ \E key \in ProvKeys, data \in ProvData : ProvStore(key, data)
    \/ \E kind \in RetrieveKinds, key \in ProvKeys : ProvRetrieve(kind, key)
    \/ \E key \in ProvKeys : ProvDelete(key)
    \/ ProvList

\* The calls of a client on one back-end instance (amazon.S3 or sftp.Sftp).
SpecProvider == InitProvider /\ [][NextProvider]_vars

\* The stores and retrieves of the engine while its configuration changes:
\* the data pipeline (any of the three), the back-end, the usability of gpg.
SpecConf == InitConf /\ [][NextConf]_vars

\* ------------------------------------------------------------- GPGBackup
\* One run of GPGBackup.main is computed over a context: the back-end that
\* --provider names with its two buckets, the database, the connections of
\* the two provider instances (None when the process starts), the number of
\* the back-end call that is to raise (0: none) with what a connect that
\* raises leaves behind, the calls and steps so far with the connections
\* they found, the exception that is propagating, the records visited and
\* the exit status.
Ctx(p, fail, left) ==
    [b |-> p,
     m |-> IF p = backend THEN mbucket ELSE other.m,
     d |-> IF p = backend THEN dbucket ELSE other.d,
     idx |-> index, nonce |-> nonce, mc |-> "none", dc |-> "none",
     calls |-> 0, fail |-> fail, left |-> left, trace |-> << >>,
     raised |-> "none", visited |-> << >>, exit |-> 0]

\* A step of the engine, and a call on a back-end instance.
Note(x, name, key) ==
    [x EXCEPT !.trace = Append(@, [ev |-> name, key |-> key,
                                   mc |-> x.mc, dc |-> x.dc])]
Log(x, name, key) == [Note(x, name, key) EXCEPT !.calls = @ + 1]

\* What the next back-end call on an instance with connection c raises.
CallError(x, c) ==
    IF ProviderGuard(c) # "ok" THEN ProviderGuard(c)
    ELSE IF x.calls + 1 = x.fail THEN "IOError"
    ELSE "none"

Raise(x, e) == [x EXCEPT !.raised = e]

\* Cloud.connect lines 175-181: metadata_provider.connect(), then
\* provider.connect().
ConnectMetadata(x) ==
    IF HasConnection(x.mc) THEN x
    ELSE IF x.calls + 1 = x.fail
    THEN [Log(x, "m_connect", << >>) EXCEPT !.mc = x.left,
                                            !.raised = "IOError"]
    ELSE [Log(x, "m_connect", << >>) EXCEPT
             !.mc = ProviderConnect(x.mc, 0).conn]

ConnectData(x) ==
    IF HasConnection(x.dc) THEN x
    ELSE IF x.calls + 1 = x.fail
    THEN [Log(x, "d_connect", << >>) EXCEPT !.dc = x.left,
                                            !.raised = "IOError"]
    ELSE [Log(x, "d_connect", << >>) EXCEPT
             !.dc = ProviderConnect(x.dc, 0).conn]

CloudConnect(x) ==
    LET a == ConnectMetadata(x)
    IN  IF a.raised # "none" THEN a ELSE ConnectData(a)

\* Cloud.disconnect lines 183-188.
CloudDisconnect(x) ==
    [Note(x, "disconnect", << >>) EXCEPT
        !.mc = ProviderDisconnect(x.b, x.mc),
        !.dc = ProviderDisconnect(x.b, x.dc)]

\* The writes of Cloud.store_from_filename lines 404-408.
CliStoreStep(x, step, rec, blob) ==
    CASE step = "s_meta" ->
            LET e == CallError(x, x.mc)
                y == Log(x, "m_store", rec.key)
            IN  IF e # "none" THEN Raise(y, e)
                ELSE [y EXCEPT !.m = ProviderStore(x.m, rec.key,
                                        GpgEncryptMetadata(JsonDumps(rec)))]
      [] step = "s_data" ->
            LET e == CallError(x, x.dc)
                y == Log(x, "d_store", rec.checksum)
            IN  IF e # "none" THEN Raise(y, e)
                ELSE [y EXCEPT !.d = ProviderStore(x.d, rec.checksum, blob)]
      [] step = "s_index" ->
            [Note(x, "index_update", rec.key) EXCEPT
                !.idx = DbUpdate(x.idx, rec)]

RECURSIVE CliStoreSteps(_, _, _, _)
CliStoreSteps(x, steps, rec, blob) ==
    IF steps = << >> \/ x.raised # "none" THEN x
    ELSE CliStoreSteps(CliStoreStep(x, Head(steps), rec, blob),
                       Tail(steps), rec, blob)

\* Cloud.store_from_filename(input_file, output_file) lines 359-410.
CloudStoreFromFilename(x, f, cloud_filename) ==
    LET key == StoreKey("store_from_filename", f.data, cloud_filename)
        checksum == StoreChecksum("store_from_filename", f.data)
        old == DbHasOne(x.idx, ProviderName(x.b), checksum)
        enc == StoreEncrypt(x.idx, ProviderName(x.b), checksum, f.data,
                            x.nonce)
        rec == CreateMetadata(ProviderName(x.b), key, cloud_filename,
                              Len(f.data), FileStat, checksum, enc)
        raised == StoreRaises(gpgok, enc)
        y == [Note(x, "store_from_filename", key) EXCEPT
                 !.nonce = IF old THEN @ ELSE @ + 1]
    IN  IF raised # "none" THEN Raise(y, raised)
        ELSE CliStoreSteps(y, StoreSteps(~old), rec, enc.encrypted_data)

\* The steps of Cloud.delete lines 551-557.
CliDeleteStep(x, step, rec) ==
    CASE step = "d_meta" ->
            LET g == CallError(x, x.mc)
                y == Log(x, "m_delete", rec.key)
            IN  IF g # "none" THEN Raise(y, g)
                ELSE IF ProviderDeleteRaises(x.b, x.m, rec.key)
                THEN Raise(y, "IOError")
                ELSE [y EXCEPT !.m = ProviderDelete(x.m, rec.key)]
      [] step = "d_index" ->
            [Note(x, "index_delete", rec.key) EXCEPT
                !.idx = DbDelete(x.idx, rec.key)]
      [] step = "d_data" ->
            IF DbHasOne(x.idx, ProviderName(x.b), rec.checksum) THEN x
            ELSE LET g == CallError(x, x.dc)
                     y == Log(x, "d_delete", rec.checksum)
                 IN  IF g # "none" THEN Raise(y, g)
                     ELSE IF ProviderDeleteRaises(x.b, x.d, rec.checksum)
                     THEN Raise(y, "IOError")
                     ELSE [y EXCEPT !.d = ProviderDelete(x.d, rec.checksum)]

RECURSIVE CliDeleteSteps(_, _, _)
CliDeleteSteps(x, steps, rec) ==
    IF steps = << >> \/ x.raised # "none" THEN x
    ELSE CliDeleteSteps(CliDeleteStep(x, Head(steps), rec), Tail(steps), rec)

\* Cloud.delete(metadata) lines 547-557.
CloudDelete(x, rec) ==
    CliDeleteSteps(Note(x, "delete", rec.key), DeleteSteps, rec)

\* Cloud.retrieve_to_filename(metadata, local_file) lines 499-545.
CloudRetrieveToFilename(x, rec) ==
    LET y == Note(x, "retrieve_to_filename", rec.key)
        g == CallError(y, y.dc)
        res == Retrieve("retrieve_to_filename", x.b, method, x.d, rec)
    IN  Raise(Log(y, "d_retrieve", rec.checksum),
              IF g # "none" THEN g
              ELSE IF res.outcome = "ok" THEN "none" ELSE res.outcome)

\* Cloud.sync lines 190-211: the drop, the listing of the metadata bucket
\* and the loop over it.
CliSync(x) ==
    LET y == [Note(x, "sync", << >>) EXCEPT
                 !.idx = DbDropProvider(x.idx, ProviderName(x.b))]
        g == CallError(y, y.mc)
        z == Log(y, "m_list", << >>)
        res == SyncLoop(y.idx, ListOrder(ProviderList(x.m)), x.m)
    IN  IF g # "none" THEN Raise(z, g)
        ELSE [z EXCEPT !.idx = res.index,
                       !.raised = IF res.outcome = "ok" THEN "none"
                                  ELSE res.outcome]

\* metadata_provider.list_keys() / list() and provider.list_keys() / list()
\* of the commands list-cloud-keys and list-cloud-data.
CliListCall(x, c, name) ==
    LET e == CallError(x, c)
    IN  IF e # "none" THEN Raise(Log(x, name, << >>), e)
        ELSE Log(x, name, << >>)

\* sys.exit(code); error_exit lines 16-27 is sys.exit(1).
Exit(x, code) == [x EXCEPT !.exit = code]

\* The handler of main, lines 319-321: cloud.disconnect(), error_exit(e).
Handler(x) == Exit(CloudDisconnect(x), 1)

\* The end of a command body that has disconnected when nothing was raised.
Ends(x, code) ==
    IF x.raised # "none" THEN Handler(x) ELSE Exit(CloudDisconnect(x), code)

\* backup_file line 110: cloud.find_one(path=output_file).
BackupFinds(x, output_file) == DbFindPath(x.idx, output_file) # << >>

\* str.startswith.
StartsWith(s, t) == Len(t) <= Len(s) /\ SubSeq(s, 1, Len(t)) = t

\* str.split('/'): the components between the slashes, cur being the one
\* that is being read.
RECURSIVE SplitSlash(_, _)
SplitSlash(path, cur) ==
    IF path = << >> THEN <<cur>>
    ELSE IF Head(path) = "/" THEN <<cur>> \o SplitSlash(Tail(path), << >>)
    ELSE SplitSlash(Tail(path), Append(cur, Head(path)))

\* '/'.join.
RECURSIVE JoinSlash(_)
JoinSlash(comps) ==
    IF comps = << >> THEN << >>
    ELSE IF Len(comps) = 1 THEN comps[1]
    ELSE comps[1] \o <<"/">> \o JoinSlash(Tail(comps))

\* The loop of posixpath.normpath over the components: empty ones and "."
\* are dropped, ".." takes back the component before it.
RECURSIVE NormComps(_, _, _)
NormComps(comps, new_comps, initial_slashes) ==
    IF comps = << >> THEN new_comps
    ELSE LET comp == Head(comps)
         IN  IF comp = << >> \/ comp = <<".">>
             THEN NormComps(Tail(comps), new_comps, initial_slashes)
             ELSE IF \/ comp # <<".", ".">>
                     \/ initial_slashes = 0 /\ new_comps = << >>
                     \/ /\ new_comps # << >>
                        /\ new_comps[Len(new_comps)] = <<".", ".">>
             THEN NormComps(Tail(comps), Append(new_comps, comp),
                            initial_slashes)
             ELSE IF new_comps # << >>
             THEN NormComps(Tail(comps),
                            SubSeq(new_comps, 1, Len(new_comps) - 1),
                            initial_slashes)
             ELSE NormComps(Tail(comps), new_comps, initial_slashes)

\* os.path.normpath (posixpath), called at GPGBackup lines 253-255.
normpath(path) ==
    IF path = << >> THEN <<".">>
    ELSE LET initial_slashes ==
                 IF Head(path) # "/" THEN 0
                 ELSE IF /\ Len(path) >= 2 /\ path[2] = "/"
                         /\ ~(Len(path) >= 3 /\ path[3] = "/")
                 THEN 2
                 ELSE 1
             out == [i \in 1..initial_slashes |-> "/"]
                    \o JoinSlash(NormComps(SplitSlash(path, << >>), << >>,
                                           initial_slashes))
         IN  IF out = << >> THEN <<".">> ELSE out

\* One turn of the loops of restore (lines 262-270, 274-283) and of remove
\* (lines 297-303, 307-312) on a record that passed the test.
Visit(x, cmd, rec) ==
    LET y == [x EXCEPT !.visited = Append(@, rec)]
    IN  IF cmd = "restore" THEN CloudRetrieveToFilename(y, rec)
        ELSE CloudDelete(y, rec)

RECURSIVE VisitAll(_, _, _)
VisitAll(x, cmd, recs) ==
    IF recs = << >> \/ x.raised # "none" THEN x
    ELSE VisitAll(Visit(x, cmd, Head(recs)), cmd, Tail(recs))

\* The body that restore and remove share: the list is taken before the
\* connect, the first record whose path is input_file is handled alone,
\* else every record whose path starts with input_file + "/".
CmdVisit(x, cmd, input_file) ==
    LET cloud_list == DbList(x.idx, ProviderName(x.b))
        IsExact(r) == r.path = input_file
        IsUnder(r) == StartsWith(r.path, input_file \o <<"/">>)
        exact == SelectSeq(cloud_list, IsExact)
        under == SelectSeq(cloud_list, IsUnder)
        a == CloudConnect(x)
    IN  IF a.raised # "none" THEN Handler(a)
        ELSE IF exact # << >> THEN Ends(Visit(a, cmd, Head(exact)), 0)
        ELSE Ends(VisitAll(a, cmd, under),
                  IF under # << >> THEN 0 ELSE 1)

\* The paths in the cloud that backup is given, and the paths and prefixes
\* that restore and remove are given.
CliPaths == { <<"b", "/", "c">>, <<"b", "c">>, <<"c">> }
CliArgs == { <<"b">>, <<"b", "/">>, <<"c">> }

\* The back-end call that raises in a run, and what a connect leaves then.
Fails(p) ==
    {<<0, "none">>} \cup ({1, 2} \X ConnectLeft(p)) \cup ({3, 4} \X {"none"})

\* The run that ended last: the command line, the exit status, what it
\* raised, visited and did, the connections it left, and the database and
\* the buckets of its back-end as it found them.
NoCmd == [cmd |-> "none", provider |-> "none", file |-> NoFile,
          path |-> << >>, exit |-> 0, raised |-> "none", visited |-> << >>,
          trace |-> << >>, mc |-> "none", dc |-> "none",
          was |-> [idx |-> << >>, m |-> EmptyBucket, d |-> EmptyBucket]]

\* What a run of GPGBackup -p p leaves: x is its context at the start and y
\* at the end.
Ran(cmd, p, f, path, x, y) ==
    /\ pc = "idle"
    /\ nops < MaxCmds
    /\ backend' = p
    /\ mbucket' = y.m
    /\ dbucket' = y.d
    /\ other' = IF p = backend THEN other
                ELSE [m |-> mbucket, d |-> dbucket]
    /\ index' = y.idx
    /\ nonce' = y.nonce
    /\ ret' = [cmd |-> cmd, provider |-> p, file |-> f, path |-> path,
               exit |-> y.exit, raised |-> y.raised, visited |-> y.visited,
               trace |-> y.trace, mc |-> y.mc, dc |-> y.dc,
               was |-> [idx |-> x.idx, m |-> x.m, d |-> x.d]]
    /\ nops' = nops + 1
    /\ UNCHANGED <<method, pc, op, held, clean, conn, sessions, gpgok,
                   cfile>>

\* Command list, lines 182-187: no connection is made.
List(p) ==
    LET x == Ctx(p, 0, "none")
    IN  Ran("list", p, NoFile, << >>, x, Exit(x, 0))

\* Commands list-cloud-keys and list-cloud-data, lines 188-219.
ListCloud(cmd, p, fail, left) ==
    LET x == Ctx(p, fail, left)
        a == CloudConnect(x)
        b == IF a.raised # "none" THEN a ELSE CliListCall(a, a.mc, "m_list")
        c == IF b.raised # "none" THEN b ELSE CliListCall(b, b.dc, "d_list")
    IN  Ran(cmd, p, NoFile, << >>, x, Ends(c, 0))

\* Command sync, lines 220-228.
Sync(p, fail, left) ==
    LET x == Ctx(p, fail, left)
        a == CloudConnect(x)
        b == IF a.raised # "none" THEN a ELSE CliSync(a)
    IN  Ran("sync", p, NoFile, << >>, x, Ends(b, 0))

\* Command backup of one file, lines 229-249 with backup_file lines 106-116.
Backup(p, f, output_file, fail, left) ==
    LET x == Ctx(p, fail, left)
        a == CloudConnect(x)
        y == IF a.raised # "none" THEN Handler(a)
             ELSE IF BackupFinds(a, output_file)
             THEN Exit(CloudDisconnect(a), 1)
             ELSE Ends(CloudStoreFromFilename(a, f, output_file), 0)
    IN  Ran("backup", p, f, output_file, x, y)

\* Command restore, lines 250-287: input_file is normalised first.
Restore(p, input_file, fail, left) ==
    LET x == Ctx(p, fail, left)
    IN  Ran("restore", p, NoFile, input_file, x,
            CmdVisit(x, "restore", normpath(input_file)))

\* Command remove, lines 288-316: input_file is used as given.
Remove(p, input_file, fail, left) ==
    LET x == Ctx(p, fail, left)
    IN  Ran("remove", p, NoFile, input_file, x,
            CmdVisit(x, "remove", input_file))

\* Before the first run: empty buckets and database, the gpg pipeline.
InitCli ==
    /\ backend = "amazon-s3"
    /\ method = "gpg"
    /\ mbucket = EmptyBucket
    /\ dbucket = EmptyBucket
    /\ index = << >>
    /\ pc = "idle"
    /\ op = NoOp
    /\ ret = NoCmd
    /\ nonce = 1
    /\ nops = 0
    /\ held = {}
    /\ clean = TRUE
    /\ conn = "none"
    /\ sessions = 0
    /\ gpgok = TRUE
    /\ other = [m |-> EmptyBucket, d |-> EmptyBucket]
    /\ cfile = ConfigDefaults

NextCli ==
    \/ \E p \in Backends : List(p)
    \/ \E cmd \in {"list-cloud-keys", "list-cloud-data"}, p \in Backends :
           \E fl \in Fails(p) : ListCloud(cmd, p, fl[1], fl[2])
    \/ \E p \in Backends : \E fl \in Fails(p) : Sync(p, fl[1], fl[2])
    \/ \E p \in Backends, f \in LocalFiles, q \in CliPaths :
           \E fl \in Fails(p) : Backup(p, f, q, fl[1], fl[2])
    \/ \E p \in Backends, d \in CliArgs :
           \E fl \in Fails(p) : Restore(p, d, fl[1], fl[2])
    \/ \E p \in Backends, d \in CliArgs :
           \E fl \in Fails(p) : Remove(p, d, fl[1], fl[2])

\* The runs of GPGBackup, one after the other, over the two back-ends and
\* one database, any one back-end call of a run raising.
SpecCli == InitCli /\ [][NextCli]_vars

\* ------------------------------------------------------------------ Config
\* Config(config_file), lines 25-45.
ConfigNew ==
    /\ cfile' = ConfigLoaded(cfile)
    /\ ret' = [op |-> "Config", outcome |-> ConfigCheck(ConfigLoaded(cfile)),
               existed |-> cfile.isfile]
    /\ UNCHANGED <<backend, method, mbucket, dbucket, index, pc, op, nonce,
                   nops, held, clean, conn, sessions, gpgok, other>>

\* The file is written, changed or removed outside the program.
ConfigEdit(file) ==
    /\ file # cfile
    /\ cfile' = file
    /\ ret' = [op |-> "edit", outcome |-> "ok", existed |-> cfile.isfile]
    /\ UNCHANGED <<backend, method, mbucket, dbucket, index, pc, op, nonce,
                   nops, held, clean, conn, sessions, gpgok, other>>

\* Before the first Config: there is no configuration file.
InitConfig ==
    /\ backend = "amazon-s3"
    /\ method = "gpg"
    /\ mbucket = EmptyBucket
    /\ dbucket = EmptyBucket
    /\ index = << >>
    /\ pc = "idle"
    /\ op = NoOp
    /\ ret = [op |-> "none", outcome |-> "none", existed |-> FALSE]
    /\ nonce = 1
    /\ nops = 0
    /\ held = {}
    /\ clean = TRUE
    /\ conn = "none"
    /\ sessions = 0
    /\ gpgok = TRUE
    /\ other = [m |-> EmptyBucket, d |-> EmptyBucket]
    /\ cfile \in { f \in ConfigFiles : ~f.isfile }

NextConfig ==
    \/ ConfigNew
    \/ \E file \in ConfigFiles : ConfigEdit(file)

\* The constructions of Config over a configuration file that is edited
\* and removed in between.
SpecConfig == InitConfig /\ [][NextConfig]_vars

\* ------------------------------------------------------- lib.encryption
\* Bytes are their ord() values here.  The plaintext files: every length up
\* to two reads and a byte, of a byte that is also a padding value or not.
LibMaxLen == 2 * ReadBlocks * BlockSize + 1
LibFills == {1, 65}
LibSalts == {0, 200}
LibPasswords == {7, 250}

Repeat(byte, n) == [i \in 1..n |-> byte]

\* file.read(size) at offset pos: the bytes left, size of them at most.
FileRead(f, pos, size) ==
    SubSeq(f, pos + 1, IF pos + size < Len(f) THEN pos + size ELSE Len(f))

\* derive_key_and_iv lines 16-25 and the AES-CBC cipher of lines 39 / 70: a
\* length-preserving bijection on bytes fixed by the password and the salt.
derive_key_and_iv(password, salt) == (password + salt[1]) % 256
CipherEncrypt(key, chunk) ==
    [i \in 1..Len(chunk) |-> (chunk[i] + key + 1) % 256]
CipherDecrypt(key, chunk) ==
    [i \in 1..Len(chunk) |-> (chunk[i] + 255 - key) % 256]

\* The loop of encrypt, lines 43-53: out is what out_file holds.
RECURSIVE EncryptLoop(_, _, _, _)
EncryptLoop(in_file, pos, out, key) ==
    LET chunk == FileRead(in_file, pos, ReadBlocks * BlockSize)
    IN  IF Len(chunk) = 0 \/ Len(chunk) % BlockSize # 0
        THEN LET padding_length == PaddingLength(Len(chunk))
             IN  out \o CipherEncrypt(key, chunk \o Repeat(padding_length,
                                                           padding_length))
        ELSE EncryptLoop(in_file, pos + Len(chunk),
                         out \o CipherEncrypt(key, chunk), key)

\* lib.encryption.encrypt lines 28-55: the salt, then the encrypted chunks;
\* the checksums of the plaintext and of the output.
encrypt(in_file, password, salt) ==
    LET out == EncryptLoop(in_file, 0, salt,
                           derive_key_and_iv(password, salt))
    IN  [out_file |-> out,
         plaintext_checksum |-> checksum_data(in_file),
         ciphertext_checksum |-> checksum_data(out)]

\* chunk[:-padding_length] of line 79.
StripPadding(chunk, padding_length) ==
    IF padding_length = 0 \/ padding_length >= Len(chunk) THEN << >>
    ELSE SubSeq(chunk, 1, Len(chunk) - padding_length)

\* The loop of decrypt, lines 73-82: the chunk decrypted one turn before is
\* written, without its padding once nothing more was read.
RECURSIVE DecryptLoop(_, _, _, _, _)
DecryptLoop(in_file, pos, next_chunk, out, key) ==
    LET encrypted_chunk == FileRead(in_file, pos, ReadBlocks * BlockSize)
        chunk == next_chunk
        decrypted == CipherDecrypt(key, encrypted_chunk)
    IN  IF Len(decrypted) = 0
        THEN IF chunk = << >>
             THEN [raised |-> "IndexError", out_file |-> out]
             ELSE [raised |-> "none",
                   out_file |-> out \o StripPadding(chunk, chunk[Len(chunk)])]
        ELSE DecryptLoop(in_file, pos + Len(encrypted_chunk), decrypted,
                         out \o chunk, key)

\* lib.encryption.decrypt lines 58-84.
decrypt(in_file, password) ==
    LET salt == FileRead(in_file, 0, BlockSize)
    IN  IF salt = << >>
        THEN [raised |-> "IndexError", out_file |-> << >>]
        ELSE DecryptLoop(in_file, Len(salt), << >>, << >>,
                         derive_key_and_iv(password, salt))

\* A caller of the library with a plaintext file and a password.
InitLib ==
    /\ backend = "amazon-s3"
    /\ method = "symmetric"
    /\ mbucket = EmptyBucket
    /\ dbucket = EmptyBucket
    /\ index = << >>
    /\ pc = "plaintext"
    /\ \E n \in 0..LibMaxLen, fill \in LibFills, s \in LibSalts,
          password \in LibPasswords :
           op = [in_file |-> Repeat(fill, n), password |-> password,
                 salt |-> Repeat(s, BlockSize)]
    /\ ret = [encrypted |-> << >>, raised |-> "none", decrypted |-> << >>]
    /\ nonce = 1
    /\ nops = 0
    /\ held = {}
    /\ clean = TRUE
    /\ conn = "none"
    /\ sessions = 0
    /\ gpgok = TRUE
    /\ other = [m |-> EmptyBucket, d |-> EmptyBucket]
    /\ cfile = ConfigDefaults

\* encrypt(in_file, out_file, password) with the salt that Random gave.
LibEncrypt ==
    /\ pc = "plaintext"
    /\ ret' = [ret EXCEPT
                  !.encrypted = encrypt(op.in_file, op.password,
                                        op.salt).out_file]
    /\ pc' = "ciphertext"
    /\ UNCHANGED <<conf, backend, method, mbucket, dbucket, index, op, nonce,
                   nops, held, clean>>

\* decrypt(in_file, out_file, password) of what encrypt wrote.
LibDecrypt ==
    /\ pc = "ciphertext"
    /\ LET res == decrypt(ret.encrypted, op.password)
       IN  ret' = [ret EXCEPT !.raised = res.raised,
                              !.decrypted = res.out_file]
    /\ pc' = "decrypted"
    /\ UNCHANGED <<conf, backend, method, mbucket, dbucket, index, op, nonce,
                   nops, held, clean>>

NextLib ==
    \/ LibEncrypt
    \/ LibDecrypt

\* The symmetric stream cipher of lib.encryption on its own: a plaintext
\* file is encrypted and the output decrypted with the same password.
SpecLib == InitLib /\ [][NextLib]_vars

\* ----------------------------------------------------------------- claims
\* The record held by the metadata object under key k.
StoredRecord(k) == JsonLoads(mbucket[k].pt)

\* The rows that Cloud.list() returns.
Listed == CloudList(index, Provider)

\* The metadata object that the running store writes is in the bucket.
MetaWritten ==
    /\ HasKey(mbucket, op.rec.key)
    /\ mbucket[op.rec.key] = GpgEncryptMetadata(JsonDumps(op.rec))

\* The data blob that the running store writes is in the bucket.
DataWritten ==
    /\ HasKey(dbucket, op.rec.checksum)
    /\ dbucket[op.rec.checksum] = op.blob

\* C1 (round trip): with no operation interrupted and no sync or drop so
\* far, every record returned by a successful store, with nothing but
\* successful stores of other (plaintext, path) pairs and retrieves since,
\* is retrieved by retrieve and by retrieve_to_filename with the plaintext
\* it was stored with.
C1_RoundTrip ==
    (pc = "idle" /\ clean) =>
        \A r \in held : \A kind \in RetrieveKinds :
            LET res == Retrieve(kind, backend, method, dbucket, r)
            IN  res.outcome = "ok" /\ checksum_data(res.data) = r.checksum

\* C2 (dedup): a store of a plaintext that the Index already lists under
\* another path writes nothing to the data bucket, gives its record the
\* checksum of the listed one and another entry key, and once it has
\* succeeded its metadata object is in the bucket under that key next to
\* the untouched objects of the other keys; the data-bucket key of a store
\* is the hash of the plaintext whatever the path.
C2_Dedup ==
    [][ /\ (op.kind \in StoreKinds /\ op.prior # {}) =>
              /\ dbucket' = dbucket
              /\ \A r \in op.prior :
                    /\ r.checksum = op.rec.checksum
                    /\ r.key # op.rec.key
                    /\ HasKey(mbucket, r.key) =>
                          /\ HasKey(mbucket', r.key)
                          /\ mbucket'[r.key] = mbucket[r.key]
              /\ ret'.outcome = "ok" => MetaWritten
        /\ (pc = "s_data" /\ dbucket' # dbucket) =>
              /\ DOMAIN dbucket' = DOMAIN dbucket \cup {op.rec.checksum}
              /\ \E data \in Plaintexts : op.rec.checksum = DataKey(data)
      ]_vars

\* C2 witness: a second store of a listed plaintext under another path has
\* succeeded; the bucket holds both metadata objects and the one blob.
C2_Witness ==
    /\ pc = "idle" /\ ret.op \in StoreKinds /\ ret.outcome = "ok"
    /\ ret.prior # {}
    /\ HasKey(mbucket, ret.rec.key)
    /\ \E r \in ret.prior : HasKey(mbucket, r.key) /\ r.key # ret.rec.key
    /\ DOMAIN dbucket = {ret.rec.checksum}

I4 == \A r \in Listed : HasKey(dbucket, r.checksum)

\* C4 as stated: I4 holds in every reachable state, sync included.
C4_I4_Invariant == I4

\* C4 amended: every step of store, delete and Index drop, of a completed or
\* of an interrupted operation, and the drop that sync starts with, keep I4;
\* only the loop of sync can bring in a row without blob.
C4_I4_Preserved == [][ (I4 /\ pc # "y_list") => I4' ]_vars

\* C4 witness: an interrupted store has left its metadata object without
\* blob, I4 holds, and the Index has rows.
C4_Witness ==
    /\ pc = "idle" /\ I4 /\ Listed # {}
    /\ \E k \in DOMAIN mbucket : ~HasKey(dbucket, StoredRecord(k).checksum)

\* C5 (I3/I5): between operations, every metadata object holds a record of
\* metadata_version 1 whose encrypted_checksum and encrypted_size are those
\* of the blob now stored under its checksum, if there is one.
C5_BucketsAgree ==
    pc = "idle" =>
        \A k \in DOMAIN mbucket :
            LET r == StoredRecord(k)
            IN  /\ r.metadata_version = METADATA_VERSION
                /\ HasKey(dbucket, r.checksum) =>
                      /\ r.encrypted_checksum
                           = checksum_data(dbucket[r.checksum])
                      /\ r.encrypted_size = BlobLen(dbucket[r.checksum])

\* C6 (integrity): a retrieve or retrieve_to_filename of a record whose
\* blob has been altered or truncated fails with DataError carrying the
\* record's checksum, nothing has been decrypted, and the destination is
\* what it was before the call.
C6_Integrity ==
    ( /\ ret.op \in RetrieveKinds
      /\ HasKey(dbucket, ret.rec.checksum)
      /\ dbucket[ret.rec.checksum].damage # "none" ) =>
        /\ ret.outcome = "DataError"
        /\ ret.errkey = ret.rec.checksum
        /\ ~ret.decrypted
        /\ ret.dest = ret.dest0

\* C6 witness: retrieve_to_filename of a record with a truncated blob has
\* failed with DataError and there is no file at the destination.
C6_Witness ==
    /\ ret.op = "retrieve_to_filename"
    /\ HasKey(dbucket, ret.rec.checksum)
    /\ dbucket[ret.rec.checksum].damage = "truncate"
    /\ ret.outcome = "DataError"
    /\ ret.dest0 = NoFile /\ ret.dest = NoFile

\* C7 (rebuildable Index): after successful stores and deletes only,
\* dropping the Index and running sync gives the rows that list() returned
\* before the drop.
C7_Rebuildable ==
    (pc = "idle" /\ clean) =>
        CloudList(CloudSync(DbDrop(index), Provider, mbucket).index, Provider)
          = Listed

\* C8 (sync idempotence): between operations, a sync run after a sync leaves
\* the Index that the first one left, whatever the Index and the metadata
\* bucket hold; and the Index that a sync of the engine has left, completed
\* or aborted by an object it refuses, is one that sync leaves as it is.
C8_SyncIdempotent ==
    pc = "idle" =>
        LET once == CloudSync(index, Provider, mbucket)
            twice == CloudSync(once.index, Provider, mbucket)
        IN  /\ twice.index = once.index
            /\ twice.outcome = once.outcome
            /\ (ret.op = "sync" /\ ret.outcome # "IOError") =>
                  /\ once.index = index
                  /\ once.outcome = ret.outcome

\* C8 witness: a sync has been aborted by an object it refuses while the
\* bucket holds a record as well.
C8_Witness ==
    /\ pc = "idle" /\ ret.op = "sync"
    /\ ret.outcome \in {"GPGError", "MetadataError"}
    /\ \E k \in DOMAIN mbucket : SyncCheck(mbucket[k]) = "ok"

\* C9 (path fold): the entry key of a store is the hash of the plaintext
\* followed by the path, and the metadata object that the store is about to
\* write under it never replaces the object of another (plaintext, path)
\* pair.
C9_PathFold ==
    (pc = "s_meta" /\ clean) =>
        /\ \E data \in Plaintexts :
              op.rec.key = checksum_data(data \o op.rec.path)
                /\ op.rec.checksum = checksum_data(data)
        /\ HasKey(mbucket, op.rec.key) =>
              /\ StoredRecord(op.rec.key).checksum = op.rec.checksum
              /\ StoredRecord(op.rec.key).path = op.rec.path

\* C10 (write ordering): a store writes the data blob only with its
\* metadata object in the metadata bucket, and reaches the Index upsert
\* only with the metadata object and, for a fresh store, the blob written.
C10_WriteOrdering ==
    [][ /\ (pc = "s_data" /\ dbucket' # dbucket) => MetaWritten
        /\ pc = "s_index" => (MetaWritten /\ (op.fresh => DataWritten))
        /\ (op.kind \in StoreKinds /\ index' # index) =>
              (MetaWritten /\ (op.fresh => DataWritten))
      ]_vars

\* C10 witness: a fresh store has written both objects and is at the Index
\* upsert.
C10_Witness ==
    pc = "s_index" /\ op.fresh /\ MetaWritten /\ DataWritten

\* The blob under a record's checksum is the gpg message that a store under
\* the gpg pipeline made of the record's plaintext.
GpgStored(rec) ==
    /\ rec.encryption_key = <<"null">>
    /\ HasKey(dbucket, rec.checksum)
    /\ dbucket[rec.checksum].alg = "gpg"
    /\ dbucket[rec.checksum].damage = "none"
    /\ checksum_data(dbucket[rec.checksum].pt) = rec.checksum
    /\ rec.encrypted_checksum = checksum_data(dbucket[rec.checksum])

\* C11 (pipeline from the record): a retrieve or retrieve_to_filename of a
\* record returned by store with a null encryption_key, whose gpg blob is in
\* the data bucket, succeeds with the stored plaintext whatever pipeline is
\* configured at the time of the retrieve.
C11_RecordPipeline ==
    (ret.op \in RetrieveKinds /\ ret.clean /\ GpgStored(ret.rec)) =>
        /\ ret.outcome = "ok"
        /\ checksum_data(ret.data) = ret.rec.checksum

\* C12 (primary key of the Index): between operations, every metadata
\* object of either back-end has its record as a row of the Index that the
\* two back-ends share, so that a record stored through one back-end stays
\* listed when a record of the same entry key is stored through the other.
C12_PrimaryKey ==
    pc = "idle" =>
        /\ \A k \in DOMAIN mbucket :
              StoredRecord(k) \in CloudList(index, Provider)
        /\ \A k \in DOMAIN other.m :
              JsonLoads(other.m[k].pt)
                \in CloudList(index, ProviderName(OtherBackend))

\* C13 (remote round trip): under the cryptoengine pipeline, with nothing
\* but successful stores and retrieves so far, every record returned by
\* store is retrieved by retrieve and by retrieve_to_filename with the
\* plaintext it was stored with.
C13_RemoteRoundTrip ==
    (pc = "idle" /\ clean /\ method = "cryptoengine") =>
        \A r \in held : \A kind \in RetrieveKinds :
            LET res == Retrieve(kind, backend, method, dbucket, r)
            IN  res.outcome = "ok" /\ checksum_data(res.data) = r.checksum

\* C14 (metadata always gpg): under each of the three pipelines, every
\* object that store and store_from_filename have written to the metadata
\* bucket of either back-end is the gpg encryption of the JSON of a record
\* with the object's key.
C14_MetadataGpg ==
    /\ \A k \in DOMAIN mbucket :
          /\ mbucket[k].alg = "gpg"
          /\ JsonIsValid(mbucket[k].pt)
          /\ StoredRecord(k).key = k
    /\ \A k \in DOMAIN other.m :
          /\ other.m[k].alg = "gpg"
          /\ JsonIsValid(other.m[k].pt)
          /\ JsonLoads(other.m[k].pt).key = k

\* C14 witness: a store under the cryptoengine pipeline has succeeded and
\* its metadata object, of a record with an encryption key, is in the bucket.
C14_Witness ==
    /\ method = "cryptoengine"
    /\ ret.op \in StoreKinds /\ ret.outcome = "ok"
    /\ HasKey(mbucket, ret.rec.key)
    /\ StoredRecord(ret.rec.key).encryption_key # <<"null">>
    /\ mbucket[ret.rec.key].alg = "gpg"

\* C15 (byte-exactness of the back-ends): for both back-ends, after a
\* store(k, x) that succeeded, on a new key or over an object already there,
\* retrieve(k) returns x and list() maps k to x, and retrieve and list give
\* for every other key what they gave before.
C15_ByteExact ==
    [][ (nops' # nops /\ ret'.op = "store" /\ ret'.outcome = "ok") =>
          /\ ProviderRetrieve(backend, "retrieve", dbucket', ret'.key)
               = [outcome |-> "ok", returned |-> "data", data |-> ret'.data]
          /\ HasKey(ProviderList(dbucket'), ret'.key)
          /\ ProviderList(dbucket')[ret'.key] = ret'.data
          /\ \A k \in ProvKeys \ {ret'.key} :
                /\ ProviderRetrieve(backend, "retrieve", dbucket', k)
                     = ProviderRetrieve(backend, "retrieve", dbucket, k)
                /\ HasKey(ProviderList(dbucket'), k)
                     = HasKey(ProviderList(dbucket), k)
                /\ HasKey(dbucket, k) =>
                     ProviderList(dbucket')[k] = ProviderList(dbucket)[k]
      ]_vars

\* C15 witness: a store has overwritten the object of its key with other
\* bytes while the other key holds an object.
C15_Witness ==
    /\ ret.op = "store" /\ ret.outcome = "ok" /\ ret.had
    /\ ret.before[ret.key] # ret.data
    /\ dbucket[ret.key] = ret.data
    /\ \E k \in ProvKeys \ {ret.key} : HasKey(dbucket, k)

\* C16 (missing key on retrieve): for both back-ends, a retrieve or
\* retrieve_to_filename that reaches the bucket and finds no object under
\* its key ends with the not-found error of the back-end and returns
\* nothing.
C16_RetrieveMissing ==
    ( /\ ret.op \in RetrieveKinds
      /\ ret.was = "open"
      /\ ~ret.had ) =>
        /\ ret.outcome = "IOError"
        /\ ret.returned = "nothing"

\* C17 (missing key on delete): for both back-ends, a delete that reaches
\* the bucket and finds no object under its key completes without error
\* and leaves the bucket as it was.
C17_DeleteMissing ==
    ( /\ ret.op = "delete"
      /\ ret.was = "open"
      /\ ~ret.had ) =>
        /\ ret.outcome = "ok"
        /\ dbucket = ret.before

\* C18 (idempotent connect and disconnect): for both back-ends, a connect
\* on an instance that holds a connection opens no session, changes
\* nothing and returns the instance; a disconnect on an instance without an
\* open connection changes nothing; a second connect after a connect and a
\* second disconnect after a disconnect would change nothing.
C18_Idempotent ==
    [][ /\ (nops' # nops /\ ret'.op = "connect") =>
              /\ ret'.outcome = "ok" /\ ret'.returned = "self"
              /\ conn # "none" => (conn' = conn /\ sessions' = sessions)
              /\ ProviderConnect(conn', sessions')
                   = [conn |-> conn', sessions |-> sessions']
        /\ (nops' # nops /\ ret'.op = "disconnect") =>
              /\ ret'.outcome = "ok"
              /\ sessions' = sessions
              /\ conn # "open" => conn' = conn
              /\ ProviderDisconnect(backend, conn') = conn'
        /\ (nops' # nops /\ ret'.op \in {"connect", "disconnect"}) =>
              dbucket' = dbucket
      ]_vars

\* C18 witness: connect has been called on an instance with an open
\* connection, and the one session opened so far is still the one it holds.
C18_Witness ==
    /\ ret.op = "connect" /\ ret.was = "open"
    /\ conn = "open" /\ sessions = 1

\* C19 (sync error reporting): a sync that ends with an error other than a
\* back-end error ends with MetadataError carrying the key of a metadata
\* object that is undecryptable, not JSON, without metadata_version or of
\* another metadata_version.
C19_SyncErrorKey ==
    (pc = "idle" /\ ret.op = "sync" /\ ret.outcome \notin {"ok", "IOError"}) =>
        /\ ret.outcome = "MetadataError"
        /\ ret.errkey \in DOMAIN mbucket
        /\ SyncCheck(mbucket[ret.errkey]) # "ok"

\* C20 (encryption failure): a store or store_from_filename begun while
\* gpg.encrypt fails ends with an error at once, and a store that ends with
\* an encryption error has changed neither bucket nor the Index and has not
\* reached any of its writes.
C20_EncryptFailure ==
    [][ (pc = "idle" /\ ret'.op \in StoreKinds) =>
          /\ ~gpgok => ret'.outcome \in {"GPGError", "Error"}
          /\ ret'.outcome \in {"GPGError", "Error"} =>
                /\ mbucket' = mbucket
                /\ dbucket' = dbucket
                /\ index' = index
                /\ pc' = "idle"
      ]_vars

\* C20 witness: with objects in both buckets and rows in the Index, a store
\* has ended with GPGError.
C20_Witness ==
    /\ ~gpgok
    /\ ret.op \in StoreKinds /\ ret.outcome = "GPGError"
    /\ mbucket # EmptyBucket /\ dbucket # EmptyBucket /\ Listed # {}

\* The steps that the running operation has still to do.
StepsLeft == { op.steps[i] : i \in 1..Len(op.steps) }

\* C27 (back-end error during store): a store or store_from_filename that
\* ends with a back-end error ends at its metadata write or at its data
\* write with the Index upsert, and for a new plaintext the data write or
\* both writes, still to do; that step changes nothing and ends the call
\* with the error; and no step of a store changes the Index before the
\* upsert or the data bucket before the data write.
C27_WriteError ==
    [][ /\ (op.kind \in StoreKinds /\ ret'.outcome = "IOError") =>
              /\ pc \in {"s_meta", "s_data"}
              /\ "s_index" \in StepsLeft
              /\ op.fresh => "s_data" \in StepsLeft
              /\ ~op.fresh => pc = "s_meta"
              /\ mbucket' = mbucket /\ dbucket' = dbucket /\ index' = index
              /\ pc' = "idle" /\ op' = NoOp
              /\ ret'.op = op.kind
        /\ (op.kind \in StoreKinds /\ "s_index" \in StepsLeft
              /\ pc # "s_index") => index' = index
        /\ (op.kind \in StoreKinds /\ "s_data" \in StepsLeft
              /\ pc # "s_data") => dbucket' = dbucket
        /\ (op.kind \in StoreKinds /\ ~op.fresh) => dbucket' = dbucket
      ]_vars

\* C27 witness: a store of a new plaintext has ended with a back-end error
\* at its data write: its metadata object is in the bucket, no blob is
\* under its checksum and the Index has no row of it.
C27_Witness ==
    /\ pc = "idle" /\ ret.op \in StoreKinds /\ ret.outcome = "IOError"
    /\ index = << >> /\ dbucket = EmptyBucket /\ mbucket # EmptyBucket

\* The Index lists a row of the provider with this checksum and the data
\* bucket has no blob under it: the record of a store interrupted between
\* its two writes, once sync has listed it.
ListedOrphan(checksum) ==
    /\ ~HasKey(dbucket, checksum)
    /\ \E r \in Listed : r.checksum = checksum

\* C28 (orphan metadata): the record of a metadata object without data blob
\* is not retrieved; a store of a plaintext whose checksum the Index lists
\* without blob (the retry after sync) takes the dedup path and no step of
\* it writes to the data bucket, so the blob is still missing when it has
\* succeeded; and once the Index step of a delete has run, the deleted
\* record's metadata object and every row with its key are gone and stay
\* gone to the end of the call.
C28_OrphanMetadata ==
    [][ /\ \A k \in DOMAIN mbucket :
              ~HasKey(dbucket, StoredRecord(k).checksum) =>
                 \A kind \in RetrieveKinds :
                     Retrieve(kind, backend, method, dbucket,
                              StoredRecord(k)).outcome # "ok"
        /\ ( /\ pc = "idle" /\ ret'.op \in StoreKinds
              /\ ret'.outcome = "running"
              /\ ListedOrphan(ret'.rec.checksum) ) =>
                 /\ ~op'.fresh
                 /\ "s_data" \notin { op'.steps[i] : i \in 1..Len(op'.steps) }
        /\ (op.kind \in StoreKinds /\ ~op.fresh) =>
                 dbucket' = dbucket
        /\ (op.kind = "delete" /\ pc = "d_index") =>
                 /\ ~HasKey(mbucket, op.rec.key)
                 /\ \A i \in 1..Len(index') : index'[i].key # op.rec.key
        /\ (op.kind = "delete" /\ pc = "d_data") =>
                 /\ mbucket' = mbucket /\ index' = index
                 /\ ~HasKey(dbucket, op.rec.checksum) =>
                       ~HasKey(dbucket', op.rec.checksum)
      ]_vars

\* C28 witness: after a store interrupted between its two writes and a
\* sync, the retry of the store has succeeded: its record is listed, its
\* metadata object is in the bucket and there is no blob under its checksum.
C28_Witness ==
    /\ pc = "idle" /\ ret.op \in StoreKinds /\ ret.outcome = "ok"
    /\ ret.rec \in Listed
    /\ HasKey(mbucket, ret.rec.key)
    /\ ~HasKey(dbucket, ret.rec.checksum)

\* A store begins right after a delete that a back-end error ended, finds a
\* blob under the checksum of its plaintext, and the Index lists no row of
\* the provider with that checksum: the delete was interrupted between its
\* Index step and its data step.
BeginsOnLeftover ==
    /\ pc = "idle" /\ ret'.op \in StoreKinds /\ ret'.outcome = "running"
    /\ ret'.leftover
    /\ ~\E r \in Listed : r.checksum = ret'.rec.checksum

\* C29 as stated: the store after the interrupted delete dedups onto the
\* leftover blob, that is, takes the branch that encrypts nothing and
\* writes nothing to the data bucket.
C29_DedupOntoLeftover == [][ BeginsOnLeftover => ~op'.fresh ]_vars

\* C29 amended: the store after the interrupted delete finds no row and
\* encrypts the plaintext anew; when it has succeeded, the blob under the
\* checksum is the new ciphertext (written over the leftover one), the new
\* record's encrypted_checksum and encrypted_size are those of that blob,
\* and the new record is retrieved with its plaintext.
C29_OverwritesLeftover ==
    [][ /\ BeginsOnLeftover =>
              /\ op'.fresh
              /\ op'.blob.nonce = nonce
              /\ op'.blob # dbucket[op'.rec.checksum]
              /\ "s_data" \in { op'.steps[i] : i \in 1..Len(op'.steps) }
        /\ (op.kind \in StoreKinds /\ ret.leftover /\ ret'.outcome = "ok") =>
              /\ HasKey(dbucket', op.rec.checksum)
              /\ dbucket'[op.rec.checksum] = op.blob
              /\ op.rec.encrypted_checksum
                   = checksum_data(dbucket'[op.rec.checksum])
              /\ op.rec.encrypted_size = BlobLen(dbucket'[op.rec.checksum])
              /\ \A kind \in RetrieveKinds :
                    LET res == Retrieve(kind, backend, method, dbucket', op.rec)
                    IN  /\ res.outcome = "ok"
                        /\ checksum_data(res.data) = op.rec.checksum
      ]_vars

\* C29 witness: the store after the interrupted delete has succeeded and
\* the blob under its checksum is the second ciphertext of the plaintext.
C29_Witness ==
    /\ pc = "idle" /\ ret.op \in StoreKinds /\ ret.outcome = "ok"
    /\ ret.leftover
    /\ HasKey(dbucket, ret.rec.checksum)
    /\ dbucket[ret.rec.checksum].nonce = 2

\* C21 (no plaintext on an integrity failure): after a retrieve_to_filename
\* that ended with DataError, for the checksum of the ciphertext or of the
\* plaintext, the destination is what it was before the call: no file if
\* there was none, the same file if there was one.
C21_NoPlaintextOnFailure ==
    (ret.op = "retrieve_to_filename" /\ ret.outcome = "DataError") =>
        ret.dest = ret.dest0

\* The steps of a store from step n on.
StepsFrom(fresh, n) == SubSeq(StoreSteps(fresh), n, Len(StoreSteps(fresh)))

\* C22 (store_from_filename is store): in every state, for the same bytes
\* and path, store_from_filename computes the entry key and the checksum
\* that store computes (the streamed digest with the path fed last is the
\* digest of bytes followed by path) and so takes the same dedup decision;
\* and a running store of either kind has decided dedup by the Index row
\* of its checksum and does the writes in the one order metadata bucket,
\* data bucket (new plaintext only), Index.
C22_StoreEquivalence ==
    /\ \A data \in Plaintexts \cup { f.data : f \in LocalFiles } :
       \A q \in Paths \cup { f.filename : f \in LocalFiles } :
          /\ StoreKey("store_from_filename", data, q)
               = StoreKey("store", data, q)
          /\ StoreChecksum("store_from_filename", data)
               = StoreChecksum("store", data)
          /\ DbHasOne(index, Provider,
                      StoreChecksum("store_from_filename", data))
               = DbHasOne(index, Provider, StoreChecksum("store", data))
    /\ op.kind \in StoreKinds =>
          /\ \E n \in 1..3 : op.steps = StepsFrom(op.fresh, n)
          /\ pc = Head(op.steps)
          /\ pc \in {"s_meta", "s_data"} =>
                op.fresh = ~DbHasOne(index, Provider, op.rec.checksum)
          /\ StoreSteps(op.fresh)
               = IF op.fresh THEN <<"s_meta", "s_data", "s_index">>
                 ELSE <<"s_meta", "s_index">>

\* C22 witness: a store_from_filename has succeeded on the dedup path over
\* a record that store made of the same bytes under another path.
C22_Witness ==
    /\ pc = "idle" /\ ret.op = "store_from_filename" /\ ret.outcome = "ok"
    /\ \E r \in ret.prior :
          /\ r.mode = NoStat.st_mode
          /\ r.checksum = ret.rec.checksum
          /\ r.encrypted_checksum = ret.rec.encrypted_checksum
    /\ ret.rec.mode = FileStat.st_mode

\* The rows of the back-end of the last run, as the run found them.
WasListed == DbList(ret.was.idx, ProviderName(ret.provider))

\* The steps and back-end calls of the last run with one of the names evs.
Events(evs) ==
    LET Want(e) == e.ev \in evs IN SelectSeq(ret.trace, Want)

\* C23 (backup exit status): a backup of one file to path q in which no
\* call raised: if the Index held a record of the run's back-end with path
\* q, both buckets and the Index are as before and the exit status is 1;
\* otherwise the file is stored under q (a listed record with its checksum,
\* its metadata object and its blob) and the exit status is 0.
C23_BackupExitStatus ==
    (ret.cmd = "backup" /\ ret.raised = "none") =>
        IF \E i \in 1..Len(WasListed) : WasListed[i].path = ret.path
        THEN /\ mbucket = ret.was.m /\ dbucket = ret.was.d
             /\ index = ret.was.idx
             /\ ret.exit = 1
        ELSE /\ ret.exit = 0
             /\ \E r \in Listed :
                   /\ r.path = ret.path
                   /\ r.checksum = checksum_file(ret.file.data, << >>)
                   /\ HasKey(mbucket, r.key)
                   /\ HasKey(dbucket, r.checksum)

\* d without the '/' at its end.
StripSlash(d) ==
    IF Len(d) > 1 /\ d[Len(d)] = "/" THEN SubSeq(d, 1, Len(d) - 1) ELSE d

\* The records of the run's back-end under the prefix d.
Under(d) ==
    LET IsUnder(r) == StartsWith(r.path, StripSlash(d) \o <<"/">>)
    IN  SelectSeq(WasListed, IsUnder)

\* C24 (prefix restore and remove): a restore or remove of d in which no
\* call raised and no record has the path d: the records visited are those
\* of the run's back-end whose path starts with d and '/', each once, with
\* one retrieve or delete for each; the exit status is 0 if there is one
\* and 1 if there is none; d may end with a '/' or not.
C24_PrefixVisit ==
    ( /\ ret.cmd \in {"restore", "remove"}
      /\ ret.raised = "none"
      /\ \A i \in 1..Len(WasListed) :
            WasListed[i].path \notin {ret.path, StripSlash(ret.path)} ) =>
        /\ Len(ret.visited) = Len(Under(ret.path))
        /\ \A i \in 1..Len(Under(ret.path)) :
              \E j \in 1..Len(ret.visited) :
                  ret.visited[j] = Under(ret.path)[i]
        /\ Len(Events({"retrieve_to_filename", "delete"}))
             = Len(Under(ret.path))
        /\ ret.exit = IF Under(ret.path) # << >> THEN 0 ELSE 1

\* C25 (scoped connection): after a run that called cloud.connect() both
\* provider instances are disconnected (no session and no transport is
\* left open), however the run ended; and every engine operation and every
\* bucket call of a run found both instances connected.
C25_ScopedConnection ==
    /\ Events({"m_connect", "d_connect"}) # << >> =>
          /\ ret.mc \in {"none", "closed"}
          /\ ret.dc \in {"none", "closed"}
    /\ \A i \in 1..Len(ret.trace) :
          ret.trace[i].ev \in {"store_from_filename", "delete",
                               "retrieve_to_filename", "sync", "m_store",
                               "d_store", "m_delete", "d_delete",
                               "d_retrieve", "m_list", "d_list"} =>
              ret.trace[i].mc = "open" /\ ret.trace[i].dc = "open"

\* C30 (delete order and frame): in a remove, every Index delete comes
\* right after the metadata-bucket delete of the same record and every
\* data-bucket delete right after an Index delete; and every row that the
\* Index held whose back-end or entry key is not that of a record visited
\* is in the Index as it was.
C30_DeleteFrame ==
    ret.cmd = "remove" =>
        /\ LET steps == Events({"m_delete", "index_delete", "d_delete"})
           IN  \A i \in 1..Len(steps) :
                  /\ steps[i].ev = "index_delete" =>
                        /\ i > 1
                        /\ steps[i - 1].ev = "m_delete"
                        /\ steps[i - 1].key = steps[i].key
                  /\ steps[i].ev = "d_delete" =>
                        i > 1 /\ steps[i - 1].ev = "index_delete"
                  /\ steps[i].ev = "m_delete" =>
                        i = 1 \/ steps[i - 1].ev # "m_delete"
        /\ \A i \in 1..Len(ret.was.idx) :
              (\A j \in 1..Len(ret.visited) :
                  \/ ret.visited[j].provider # ret.was.idx[i].provider
                  \/ ret.visited[j].key # ret.was.idx[i].key) =>
                  \E k \in 1..Len(index) : index[k] = ret.was.idx[i]

\* C26 (no configuration file): a Config constructed with the path of a
\* file that is not there ends with ConfigError, and there is no file at
\* the path afterwards.
C26_MissingConfigFile ==
    (ret.op = "Config" /\ ~ret.existed) =>
        ret.outcome = "ConfigError" /\ ~cfile.isfile

\* C37 (reconnect after disconnect): for both back-ends, after a connect
\* or disconnect call the instance holds a live session exactly when the
\* call was connect, and after a disconnect a following connect would open
\* a fresh session.
C37_Reconnect ==
    ret.op \in {"connect", "disconnect"} =>
        /\ (conn = "open") <=> (ret.op = "connect")
        /\ ret.op = "disconnect" =>
              ProviderConnect(conn, sessions)
                = [conn |-> "open", sessions |-> sessions + 1]

\* C32 (retrieve changes nothing): a step that is a retrieve or a
\* retrieve_to_filename, whether it ends well or with a back-end error, a
\* DataError or an error of the decryption, leaves the data bucket, the
\* metadata bucket and the Index as they were.
C32_RetrieveFrame ==
    [][ (nops' # nops /\ ret'.op \in RetrieveKinds) =>
            /\ mbucket' = mbucket
            /\ dbucket' = dbucket
            /\ index' = index
      ]_vars

\* C32 witness: a retrieve_to_filename has ended with DataError on a blob
\* that was damaged in the bucket, and the blob and the row are still there.
C32_Witness ==
    /\ pc = "idle"
    /\ ret.op = "retrieve_to_filename" /\ ret.outcome = "DataError"
    /\ HasKey(dbucket, ret.rec.checksum)
    /\ dbucket[ret.rec.checksum].damage # "none"
    /\ ret.rec \in Listed

\* C31 (sync frame): after a sync of one back-end, whether it completed or
\* not, every row that the Index held for another back-end is in the Index
\* as it was, also when the synced bucket holds an object with that row's
\* name and entry key.
C31_SyncFrame ==
    ret.cmd = "sync" =>
        \A i \in 1..Len(ret.was.idx) :
            ret.was.idx[i].provider # ProviderName(ret.provider) =>
                \E k \in 1..Len(index) : index[k] = ret.was.idx[i]

\* C35 (dedup consistency of the Index): in every state, any two listed
\* records with the same checksum have the same encryption_key,
\* encrypted_size and encrypted_checksum.
C35_DedupConsistency ==
    \A r1, r2 \in Listed :
        r1.checksum = r2.checksum =>
            /\ r1.encryption_key = r2.encryption_key
            /\ r1.encrypted_size = r2.encrypted_size
            /\ r1.encrypted_checksum = r2.encrypted_checksum

\* C36 (store never replaces by path): a step of a store leaves every Index
\* row whose plaintext or path differs from the stored one in the Index,
\* and leaves the metadata object and the data blob of that row as they
\* were; only a row of the same plaintext and the same path is overwritten.
C36_NoReplaceByPath ==
    [][ (pc \in {"s_meta", "s_data", "s_index"}) =>
          (\A i \in 1..Len(index) :
              (index[i].checksum # op.rec.checksum \/ index[i].path # op.rec.path) =>
                  /\ \E k \in 1..Len(index') : index'[k] = index[i]
                  /\ (HasKey(mbucket, index[i].key) =>
                        (/\ HasKey(mbucket', index[i].key)
                         /\ mbucket'[index[i].key] = mbucket[index[i].key]))
                  /\ ((HasKey(dbucket, index[i].checksum)
                        /\ index[i].checksum # op.rec.checksum) =>
                        (/\ HasKey(dbucket', index[i].checksum)
                         /\ dbucket'[index[i].checksum] = dbucket[index[i].checksum]))) ]_vars

\* C38 (Index after sync is a subset of the bucket): from the start of a
\* sync until the next call, completed or aborted, every Index row of the
\* back-end is the record of the metadata object under its entry key; after
\* a sync that completes every object of the bucket has exactly one row.
C38_IndexSubsetOfBucket ==
    ret.op = "sync" =>
        /\ \A i \in 1..Len(index) :
               index[i].provider = Provider =>
                   /\ HasKey(mbucket, index[i].key)
                   /\ StoredRecord(index[i].key) = index[i]
        /\ (pc = "idle" /\ ret.outcome = "ok") =>
               \A k \in DOMAIN mbucket :
                   Cardinality({ i \in 1..Len(index) :
                                   /\ index[i].provider = Provider
                                   /\ index[i].key = k }) = 1

\* A completed sync of a bucket of two objects, one of them written by a
\* store that was cut before its Index row.
C38_Witness ==
    /\ pc = "idle" /\ ret.op = "sync" /\ ret.outcome = "ok"
    /\ Cardinality(DOMAIN mbucket) = 2
    /\ Len(index) = 2
    /\ \E k \in DOMAIN mbucket : ~HasKey(dbucket, StoredRecord(k).checksum)

\* C33 (local checksum under the remote pipeline): whenever a store under
\* the remote pipeline writes a blob to the data bucket, the
\* encrypted_checksum of its record is the SHA-256 of the bytes written,
\* whatever checksum the worker reported.
C33_LocalEncryptedChecksum ==
    [][ (pc = "s_data" /\ method = "cryptoengine" /\ dbucket' # dbucket) =>
            op.rec.encrypted_checksum =
                checksum_data(dbucket'[op.rec.checksum]) ]_vars

\* C34 (symmetric padding): for a plaintext of n bytes, encrypt writes the
\* 16-byte salt and then n + pad ciphertext bytes, the encryption of the
\* plaintext followed by pad bytes each of value pad, where
\* pad = 16 - (n mod 16) is in 1..16; decrypt of that output raises nothing
\* and returns the n bytes of the plaintext.
C34_SymmetricPadding ==
    LET n == Len(op.in_file)
        pad == 16 - (n % 16)
        key == derive_key_and_iv(op.password, op.salt)
    IN  /\ pc \in {"ciphertext", "decrypted"} =>
              /\ pad \in 1..16
              /\ (n % 16 = 0) => pad = 16
              /\ Len(ret.encrypted) = 16 + n + pad
              /\ SubSeq(ret.encrypted, 1, 16) = op.salt
              /\ CipherDecrypt(key, SubSeq(ret.encrypted, 17,
                                           Len(ret.encrypted)))
                     = op.in_file \o Repeat(pad, pad)
        /\ pc = "decrypted" =>
              /\ ret.raised = "none"
              /\ Len(ret.decrypted) = n
              /\ ret.decrypted = op.in_file

\* A plaintext of a whole number of blocks, longer than one read, whose
\* last byte is a padding value, has been encrypted and decrypted.
C34_Witness ==
    /\ pc = "decrypted"
    /\ Len(op.in_file) > ReadBlocks * BlockSize
    /\ Len(op.in_file) % BlockSize = 0
    /\ op.in_file[Len(op.in_file)] = 1
    /\ Len(ret.encrypted) = Len(op.in_file) + 2 * BlockSize

====
